---- MODULE Spec2Model ----
(***************************************************************************)
(* A model of the session orchestration core of nexus-ideas-ai: the chat  *)
(* page (src/src/pages/Session.tsx), the private facilitator channel       *)
(* (PrivateFacilitatorChat.tsx and the private-facilitator function), the  *)
(* chat-agent and extract-concepts functions, the session summary         *)
(* function and the database schema with its row-level policies.           *)
(*                                                                         *)
(* Texts are sequences of one-character strings, so that toLowerCase,     *)
(* includes, trim and the prefix patterns are computed character by       *)
(* character as the JavaScript does.                                       *)
(*                                                                         *)
(* What the model takes for granted: each insert notification is rendered *)
(* on its own (the notifications arrive as separate socket events, so     *)
(* React does not batch them); an effect and the inserts it starts are    *)
(* one step; the store, the completion service and the functions may fail *)
(* at every call, and every such outcome is a choice of the step.  A     *)
(* handler that awaits the completion service is two steps, so that       *)
(* notifications and other handlers run in between.                       *)
(***************************************************************************)
EXTENDS Integers, Sequences, FiniteSets, TLC

\* ------------------------------------------------------------------ texts

LowerLetters ==
  <<"a","b","c","d","e","f","g","h","i","j","k","l","m","n","o","p","q","r","s","t","u","v",
    "w","x","y","z">>

UpperLetters ==
  <<"A","B","C","D","E","F","G","H","I","J","K","L","M","N","O","P","Q","R","S","T","U","V",
    "W","X","Y","Z">>

\* String.prototype.toLowerCase on one character.
toLowerChar(ch) ==
  IF \E i \in 1..Len(UpperLetters) : UpperLetters[i] = ch
  THEN LowerLetters[CHOOSE i \in 1..Len(UpperLetters) : UpperLetters[i] = ch]
  ELSE ch

\* String.prototype.toLowerCase.
toLowerCase(s) == [i \in 1..Len(s) |-> toLowerChar(s[i])]

\* String.prototype.includes: needle occurs in hay as a contiguous run.
includes(hay, needle) ==
  \E i \in 0..(Len(hay) - Len(needle)) : SubSeq(hay, i + 1, i + Len(needle)) = needle

AtSpark ==
  <<"@","s","p","a","r","k">>

AtProbe ==
  <<"@","p","r","o","b","e">>

AtFacilitator ==
  <<"@","f","a","c","i","l","i","t","a","t","o","r">>

AtAnchor ==
  <<"@","a","n","c","h","o","r">>

\* A plausible slip: the probe test placed before the spark test.
detectAgentProbeFirst(message) ==
  LET lowerMessage == toLowerCase(message) IN
  IF includes(lowerMessage, AtProbe) THEN "probe"
  ELSE IF includes(lowerMessage, AtSpark) THEN "spark"
  ELSE IF includes(lowerMessage, AtFacilitator) THEN "facilitator"
  ELSE IF includes(lowerMessage, AtAnchor) THEN "anchor"
  ELSE "null"

\* detectAgent: the first token found, in the order of the if-chain; "null"
\* stands for the JavaScript null.
detectAgent(message) ==
  LET lowerMessage == toLowerCase(message) IN
  IF includes(lowerMessage, AtSpark) THEN "spark"
  ELSE IF includes(lowerMessage, AtProbe) THEN "probe"
  ELSE IF includes(lowerMessage, AtFacilitator) THEN "facilitator"
  ELSE IF includes(lowerMessage, AtAnchor) THEN "anchor"
  ELSE "null"

\* ----------------------------------------------------- the texts in use

\* What users type in the group chat.
Chat_hello ==
  <<"h","e","l","l","o"," ","t","e","a","m">>

Chat_spark ==
  <<"@","S","p","a","r","k"," ","w","h","a","t"," ","a","b","o","u","t"," ","a"," ","f","o",
    "x","?">>

Chat_probe_spark ==
  <<"a","s","k"," ","@","p","r","o","b","e",","," ","t","h","e","n"," ","@","S","P","A","R",
    "K">>

Chat_anchor ==
  <<"a","r","e"," ","w","e"," ","o","n"," ","t","r","a","c","k"," ","@","a","n","c","h","o",
    "r">>

ChatTexts == {"hello", "spark", "probe_spark", "anchor"}

ChatText(id) ==
  CASE id = "hello" -> Chat_hello
    [] id = "spark" -> Chat_spark
    [] id = "probe_spark" -> Chat_probe_spark
    [] id = "anchor" -> Chat_anchor

\* detectAgent(content) for each of the chat texts.
MentionOf == [t \in ChatTexts |-> detectAgent(ChatText(t))]

\* ------------------------------------------------ the private-chat texts

Whitespace == {" ", "\t", "\n"}

\* String.prototype.trim.
trim(s) ==
  LET kept == {i \in 1..Len(s) : s[i] \notin Whitespace} IN
  IF kept = {} THEN <<>>
  ELSE SubSeq(s, CHOOSE i \in kept : \A j \in kept : i <= j,
                 CHOOSE i \in kept : \A j \in kept : j <= i)

\* /^(w1|w2|...)/i.test(s): s starts with one of the words, whatever the case.
TestPrefix(words, s) ==
  \E k \in 1..Len(words) :
    /\ Len(s) >= Len(words[k])
    /\ toLowerCase(SubSeq(s, 1, Len(words[k]))) = words[k]

YesWords ==
  << <<"y","e","s">>, <<"y","e","a","h">>, <<"y","e","p">>, <<"s","u","r","e">>,
     <<"o","k">>, <<"o","k","a","y">>, <<"y">>, <<"s","h","a","r","e">>,
     <<"p","o","s","t">> >>

NoWords ==
  << <<"n","o">>, <<"n","a","h">>, <<"n","o","p","e">>, <<"n">>,
     <<"d","o","n","'","t">>, <<"d","o","n","t">> >>

WordShare == <<"s","h","a","r","e">>

WordGroup == <<"g","r","o","u","p">>

\* What users type in the private chat.
Priv_idea ==
  <<"a"," ","f","o","x"," ","a","s"," ","o","u","r"," ","m","a","s","c","o","t">>

Priv_refined ==
  <<"a"," ","r","e","d"," ","f","o","x"," ","a","s"," ","o","u","r"," ","m","a","s","c","o",
    "t">>

Priv_yes ==
  <<" ","Y","e","s"," ","p","l","e","a","s","e">>

Priv_no ==
  <<"n","o"," ","t","h","a","n","k","s">>

\* What the completion service answers in the private chat.
Priv_more ==
  <<"I","n","t","e","r","e","s","t","i","n","g","!"," ","T","e","l","l"," ","m","e"," ","m",
    "o","r","e",".">>

Priv_ask ==
  <<"S","h","a","l","l"," ","I"," ","S","h","a","r","e"," ","i","t"," ","a","n","o","n","y",
    "m","o","u","s","l","y"," ","w","i","t","h"," ","t","h","e"," ","G","r","o","u","p","?">>

\* A reply to a decline that names what it will not do.
Priv_keep ==
  <<"N","o"," ","p","r","o","b","l","e","m",","," ","I"," ","w","i","l","l"," ","n","o","t",
    " ","s","h","a","r","e"," ","i","t"," ","w","i","t","h"," ","t","h","e"," ","g","r","o",
    "u","p",".">>

\* private-facilitator/index.ts:151: the acknowledgment of a share.
Priv_ack ==
  <<"A","l","r","i","g","h","t","!"," ","I","'","l","l"," ","s","h","a","r","e"," ","y","o",
    "u","r"," ","i","d","e","a"," ","w","i","t","h"," ","t","h","e"," ","g","r","o","u","p",
    " ","n","o","w","."," ","Y","o","u"," ","c","a","n"," ","c","l","o","s","e"," ","t","h",
    "i","s"," ","c","h","a","t"," ","t","o"," ","s","e","e"," ","t","h","e"," ","d","i","s",
    "c","u","s","s","i","o","n"," ","a","n","d"," ","w","h","a","t"," ","e","v","e","r","y",
    "o","n","e"," ","t","h","i","n","k","s","!">>

PrivUserTexts == {"p_idea", "p_refined", "p_yes", "p_no"}

\* What the user of the private specification types.
PrivSendTexts == {"p_idea", "p_yes", "p_no"}

PrivReplies == {"f_more", "f_ask", "f_keep"}

PrivTexts == PrivUserTexts \cup PrivReplies \cup {"f_ack"}

PrivText(id) ==
  CASE id = "p_idea" -> Priv_idea
    [] id = "p_refined" -> Priv_refined
    [] id = "p_yes" -> Priv_yes
    [] id = "p_no" -> Priv_no
    [] id = "f_more" -> Priv_more
    [] id = "f_ask" -> Priv_ask
    [] id = "f_keep" -> Priv_keep
    [] id = "f_ack" -> Priv_ack

\* A plausible slip: the test on the message as typed, without trim().
isYesResponseUntrimmed(userMessage) == TestPrefix(YesWords, userMessage)

isYesResponse(userMessage) == TestPrefix(YesWords, trim(userMessage))

isNoResponse(userMessage) == TestPrefix(NoWords, trim(userMessage))

\* The content test of isAskingToShare on one facilitator message.
asksToShare(content) ==
  includes(toLowerCase(content), WordShare) /\ includes(toLowerCase(content), WordGroup)

\* The three tests for each of the private texts.
YesOf == [t \in PrivTexts |-> isYesResponse(PrivText(t))]

NoOf == [t \in PrivTexts |-> isNoResponse(PrivText(t))]

AsksOf == [t \in PrivTexts |-> asksToShare(PrivText(t))]

\* ------------------------------------------------------------- the state

Users == {"u1", "u2"}

\* sessions.created_by: the user who created the session.
Creator == "u1"

\* A message of a persona carries no user_id.
NoUser == "none"

VARIABLES
  \* the store
  msgs,          \* messages of the session, in insertion (created_at) order
  nodes,         \* mind_map_nodes of the session
  edges,         \* mind_map_edges of the session
  status,        \* sessions.status
  summaries,     \* session_summaries of the session
  participants,  \* session_participants of the session, in join order
  pmsgs,         \* private_messages of the session, per owning user
  \* one session view (the Session component) per user
  session,       \* the session state is set
  phase,         \* where loadSession stands
  snap,          \* the rows the message select returned, not yet applied
  cursor,        \* the last insert the subscription has delivered
  local,         \* the messages state: row ids in display order
  sending,       \* the sending state
  pend,          \* the send that awaits its agent call
  lastAgentCalled, \* lastAgentCalledRef
  armed,         \* the number of running intervals of the inactivity effect
  ticks,         \* timer periods since lastActivityRef was set
  \* one private chat (the PrivateFacilitatorChat component) per user
  popen,         \* the dialog is open: loaded and subscribed
  plocal,        \* its messages state: row ids in display order
  pcursor,       \* the last insert its subscription has delivered
  ppend,         \* the private send that awaits the coordinator
  \* history, for stating properties
  ev,            \* the last handler run: its inputs, what it called and raised
  fired,         \* per view: count-threshold emissions so far
  inact          \* per view: personas of the last two inactivity firings

storeVars == <<msgs, nodes, edges, status, summaries, participants, pmsgs>>
privVars == <<popen, plocal, pcursor, ppend>>
viewVars == <<session, phase, snap, cursor, local, sending, pend, lastAgentCalled,
              armed, ticks, privVars>>
histVars == <<ev, fired, inact>>
vars == <<storeVars, viewVars, histVars>>

\* A row of public.messages; its id is its position in msgs.
Msg(agent, user, anon, content) ==
  [agent_type |-> agent, user_id |-> user, is_anonymous |-> anon, content |-> content]

NoPend == [active |-> FALSE, text |-> "hello", hist |-> <<>>, ins |-> TRUE]

\* One run of callAgent: what the completion service answers (llm), whether
\* the store accepts the reply (insOk), what extraction answers (resp) and
\* which node inserts the store rejects (nodeFail).
NoRun == [llm |-> "httpError", insOk |-> TRUE,
          resp |-> [kind |-> "httpError", concepts |-> <<>>], nodeFail |-> {}]

\* One run of the private-facilitator function: the answer to the
\* announcement call (share), whether the store accepts the announcement
\* (shareIns), extraction's answer (resp) and the node inserts the store
\* rejects (nodeFail); the answer to the conversation call (llm, reply).
NoPrivRun ==
  [share |-> "httpError", shareIns |-> TRUE,
   resp |-> [kind |-> "httpError", concepts |-> <<>>], nodeFail |-> {},
   llm |-> "httpError", reply |-> "f_more"]

\* One run of generate-session-summary: the answer to the structured
\* summary call (llm), the answer to the image call (img), and whether the
\* store accepts the summary row (insOk).
NoSummaryRun == [llm |-> "httpError", img |-> "ok", insOk |-> TRUE]

NoEv ==
  [op |-> "none", c |-> NoUser, text |-> "", chars |-> <<>>, auth |-> TRUE,
   ins |-> TRUE, run |-> NoRun, result |-> "none",
   msgs0 |-> <<>>, nodes0 |-> <<>>, edges0 |-> <<>>, status0 |-> "active",
   sums0 |-> <<>>,
   calls |-> <<>>, toasts |-> <<>>,
   hist |-> <<>>, shared |-> FALSE, error |-> FALSE, idea |-> "",
   elapsed |-> 0, facil |-> 0, users |-> 0, last0 |-> "none",
   anchorOk |-> TRUE, nudgeOk |-> {}, extracts |-> <<>>,
   prun |-> NoPrivRun, userIns |-> TRUE, thread0 |-> <<>>, view |-> <<>>,
   srun |-> NoSummaryRun, isYes |-> FALSE, isNo |-> FALSE, asking |-> FALSE]

\* ------------------------------------------------- the edge functions

\* Session.tsx:394: conversationHistory.slice(-10).
HistoryWindow == 10

\* Array.prototype.slice(-n): the last n elements, all of them when fewer.
\* A plausible slip: slice(0, n), the first n elements.
SliceFirst(s, n) == IF Len(s) > n THEN SubSeq(s, 1, n) ELSE s

SliceLast(s, n) == IF Len(s) > n THEN SubSeq(s, Len(s) - n + 1, Len(s)) ELSE s

\* What the completion service does with a chat-agent request.
ChatLlm == {"ok", "httpError", "noReply"}

\* A plausible slip: a response without a reply is passed on as a success.
ChatAgentPassesEmpty(llm) ==
  IF llm = "httpError"
  THEN [error |-> TRUE, reply |-> "no-reply"]
  ELSE [error |-> FALSE, reply |-> "reply"]

\* The chat-agent function: a reply, or status 500 when the completion call
\* is not ok or its response holds no reply.
ChatAgent(llm) ==
  IF llm = "ok"
  THEN [error |-> FALSE, reply |-> "reply"]
  ELSE [error |-> TRUE, reply |-> "no-reply"]

Concept(label, connections) == [label |-> label, connections |-> connections]

ConceptLists ==
  { <<>>,
    <<Concept("fox", {})>>,
    <<Concept("fox", {}), Concept("den", {"fox"})>> }

\* What the completion service does with an extract-concepts request.
ExtractLlm ==
  {[kind |-> "httpError", concepts |-> <<>>], [kind |-> "noToolCall", concepts |-> <<>>]}
    \cup {[kind |-> "tool", concepts |-> cl] : cl \in ConceptLists}

\* The extract-concepts function: status 500 when the completion call is not
\* ok; the tool call's concepts, or an empty list when there is no tool call.
ExtractConcepts(resp) ==
  IF resp.kind = "httpError"
  THEN [error |-> TRUE, concepts |-> <<>>]
  ELSE LET result == IF resp.kind = "tool" THEN resp.concepts ELSE <<>>
       IN [error |-> FALSE, concepts |-> result]

\* A plausible slip: every node is tagged as the facilitator's.
NodeOfFacilitator(label, agentType, messageId, near) ==
  [label |-> label, agent_type |-> "facilitator", message_id |-> messageId, near |-> near]

\* A row of public.mind_map_nodes. The position is random, or near one of
\* the rows the parent lookup returned: near holds those rows.
Node(label, agentType, messageId, near) ==
  [label |-> label, agent_type |-> agentType, message_id |-> messageId, near |-> near]

\* The loop of extractConcepts over data.concepts, from the i-th on. nodeFail
\* holds the positions whose insert the store rejects.
RECURSIVE InsertConcepts(_, _, _, _, _, _)
InsertConcepts(ns, concepts, i, agentType, messageId, nodeFail) ==
  IF i > Len(concepts) THEN ns
  ELSE LET concept == concepts[i]
           parentNodes ==
             IF concept.connections # {}
             THEN {k \in 1..Len(ns) : ns[k].label \in concept.connections}
             ELSE {}
           inserted ==
             IF i \in nodeFail THEN ns
             ELSE Append(ns, Node(concept.label, agentType, messageId, parentNodes))
       IN InsertConcepts(inserted, concepts, i + 1, agentType, messageId, nodeFail)

\* A plausible slip: a placeholder node is written when nothing was found.
extractConceptsPlaceholder(ns, agentType, messageId, resp, nodeFail) ==
  LET data == ExtractConcepts(resp) IN
  IF data.error THEN ns
  ELSE IF Len(data.concepts) > 0
  THEN InsertConcepts(ns, data.concepts, 1, agentType, messageId, nodeFail)
  ELSE Append(ns, Node("untitled", agentType, messageId, {}))

\* extractConcepts of Session.tsx: the nodes table after it ran. It writes no
\* edge; any failure is caught and logged.
extractConcepts(ns, agentType, messageId, resp, nodeFail) ==
  LET data == ExtractConcepts(resp) IN
  IF data.error THEN ns
  ELSE IF Len(data.concepts) > 0
  THEN InsertConcepts(ns, data.concepts, 1, agentType, messageId, nodeFail)
  ELSE ns

\* The conversationHistory a handler builds from the messages state L.
HistoryOf(ms, L) ==
  [i \in 1..Len(L) |->
     [role |-> IF ms[L[i]].agent_type = "user" THEN "user" ELSE "assistant",
      content |-> ms[L[i]].content]]

\* A plausible slip: only the replies of spark are sent to the extraction.
extractRequestsOfSpark(messageContent, agentType, saved) ==
  IF saved /\ agentType = "spark"
  THEN <<[message |-> messageContent, agentType |-> agentType]>>
  ELSE <<>>

\* The requests to the extract-concepts function that follow the insert of
\* a message: one with the text of the message when the insert returned
\* its row, none otherwise.
extractRequests(messageContent, agentType, saved) ==
  IF saved THEN <<[message |-> messageContent, agentType |-> agentType]>> ELSE <<>>

\* A plausible slip: the reply is stored before the error is looked at.
callAgentStoresFirst(ms, ns, agent, userMessage, history, llm, insOk, resp, nodeFail) ==
  LET r == ChatAgent(llm)
      call == [agent |-> agent, message |-> userMessage,
               history |-> SliceLast(history, HistoryWindow)]
      ms2 == IF insOk THEN Append(ms, Msg(agent, NoUser, FALSE, r.reply)) ELSE ms
  IN [msgs |-> ms2, nodes |-> ns, calls |-> <<call>>,
      toasts |-> IF r.error THEN <<"Agent error">> ELSE <<>>, extracts |-> <<>>]

\* A plausible slip: the reply is written over the newest message.
callAgentWritesOver(ms, ns, agent, userMessage, history, llm, insOk, resp, nodeFail) ==
  LET r == ChatAgent(llm)
      call == [agent |-> agent, message |-> userMessage,
               history |-> SliceLast(history, HistoryWindow)]
  IN IF r.error \/ ~insOk \/ Len(ms) = 0
     THEN [msgs |-> ms, nodes |-> ns, calls |-> <<call>>,
           toasts |-> IF r.error THEN <<"Agent error">> ELSE <<>>, extracts |-> <<>>]
     ELSE [msgs |-> [ms EXCEPT ![Len(ms)] = Msg(agent, NoUser, FALSE, r.reply)],
           nodes |-> ns, calls |-> <<call>>, toasts |-> <<>>, extracts |-> <<>>]

\* A plausible slip: a failed extraction reaches the catch of callAgent.
callAgentExtractionThrows(ms, ns, agent, userMessage, history, llm, insOk, resp, nodeFail) ==
  LET r == ChatAgent(llm)
      call == [agent |-> agent, message |-> userMessage,
               history |-> SliceLast(history, HistoryWindow)]
      failed == ExtractConcepts(resp).error \/ nodeFail # {}
  IN IF r.error
     THEN [msgs |-> ms, nodes |-> ns, calls |-> <<call>>, toasts |-> <<"Agent error">>,
           extracts |-> <<>>]
     ELSE IF insOk
     THEN [msgs |-> Append(ms, Msg(agent, NoUser, FALSE, r.reply)),
           nodes |-> extractConcepts(ns, agent, Len(ms) + 1, resp, nodeFail),
           calls |-> <<call>>,
           toasts |-> IF failed THEN <<"Agent error">> ELSE <<>>,
           extracts |-> extractRequests(r.reply, agent, TRUE)]
     ELSE [msgs |-> ms, nodes |-> ns, calls |-> <<call>>, toasts |-> <<>>,
           extracts |-> extractRequests(r.reply, agent, FALSE)]

\* callAgent: the store after it ran, the call it made and what it raised.
\* The insert's error is not looked at: a rejected insert leaves savedMessage
\* null and nothing else happens.
callAgent(ms, ns, agent, userMessage, history, llm, insOk, resp, nodeFail) ==
  LET r == ChatAgent(llm)
      call == [agent |-> agent, message |-> userMessage,
               history |-> SliceLast(history, HistoryWindow)]
  IN IF r.error
     THEN [msgs |-> ms, nodes |-> ns, calls |-> <<call>>, toasts |-> <<"Agent error">>,
           extracts |-> <<>>]
     ELSE IF insOk
     THEN [msgs |-> Append(ms, Msg(agent, NoUser, FALSE, r.reply)),
           nodes |-> extractConcepts(ns, agent, Len(ms) + 1, resp, nodeFail),
           calls |-> <<call>>, toasts |-> <<>>,
           extracts |-> extractRequests(r.reply, agent, TRUE)]
     ELSE [msgs |-> ms, nodes |-> ns, calls |-> <<call>>, toasts |-> <<>>,
           extracts |-> extractRequests(r.reply, agent, FALSE)]

\* ---------------------------------------------- the effect on [messages]

\* Session.tsx:87: the participants check runs at every multiple of 10.
CheckEvery == 10

\* Session.tsx:222: messages.slice(-10).
RecentWindow == 10

\* Session.tsx:97 and :99: the counts of the goal-keeper interventions.
ReminderCount == 15

SummaryCount == 30

\* Session.tsx:237: a participant whose profile has no display name is
\* addressed as 'team member'.
NudgeText(u) ==
  CASE u = "u1" -> "nudge_u1" [] u = "u2" -> "nudge_u2" [] OTHER -> "nudge_member"

\* The users with a non-anonymous user message among the last 10 of L.
recentUserIds(ms, L) ==
  LET recentMessages == SliceLast(L, RecentWindow) IN
  { ms[recentMessages[i]].user_id :
      i \in { j \in 1..Len(recentMessages) :
                /\ ms[recentMessages[j]].agent_type = "user"
                /\ ~ms[recentMessages[j]].is_anonymous
                /\ ms[recentMessages[j]].user_id # NoUser } }

\* The rows of session_participants the select policy lets c read: c's own
\* row, and every row when c created the session.
VisibleParticipants(ps, c) == SelectSeq(ps, LAMBDA p : p = c \/ c = Creator)

inactiveParticipants(ms, ps, c, L) ==
  SelectSeq(VisibleParticipants(ps, c), LAMBDA p : p # c /\ p \notin recentUserIds(ms, L))

\* checkInactiveParticipants: the facilitator messages it inserts, one per
\* inactive participant whose insert the store accepts (nudgeOk).
checkInactiveParticipants(ms, ps, c, L, nudgeOk) ==
  LET accepted == SelectSeq(inactiveParticipants(ms, ps, c, L), LAMBDA p : p \in nudgeOk)
  IN [i \in 1..Len(accepted) |-> Msg("facilitator", NoUser, FALSE, NudgeText(accepted[i]))]

\* A plausible slip: the prompt is due from 30 messages on.
AnchorRuleFrom(L) ==
  IF Len(L) = ReminderCount THEN "reminder"
  ELSE IF Len(L) >= SummaryCount THEN "summaryPrompt"
  ELSE "none"

\* The goal-keeper intervention the effect starts for a list of this length.
AnchorRule(L) ==
  IF Len(L) = ReminderCount THEN "reminder"
  ELSE IF Len(L) = SummaryCount THEN "summaryPrompt"
  ELSE "none"

\* The rows the effect on [messages] inserts for the new list L of view c:
\* the participants check at every multiple of 10, then the goal-keeper
\* message at 15 or 30. Both are started without being awaited, so either
\* may reach the store first (anchorFirst).
EffectInserts(ms, ps, c, L, anchorOk, nudgeOk, anchorFirst) ==
  LET nudges ==
        IF Len(L) > 0 /\ Len(L) % CheckEvery = 0
        THEN checkInactiveParticipants(ms, ps, c, L, nudgeOk)
        ELSE <<>>
      anchor ==
        IF AnchorRule(L) # "none" /\ anchorOk
        THEN <<Msg("anchor", NoUser, FALSE, AnchorRule(L))>>
        ELSE <<>>
  IN IF anchorFirst THEN anchor \o nudges ELSE nudges \o anchor

\* The count-threshold emissions of a view after the effect ran for L, and
\* how many of their inserts the store rejected.
FiredAfter(f, L, anchorOk) ==
  [reminder |-> f.reminder + (IF AnchorRule(L) = "reminder" THEN 1 ELSE 0),
   prompt |-> f.prompt + (IF AnchorRule(L) = "summaryPrompt" THEN 1 ELSE 0),
   rejected |-> f.rejected + (IF AnchorRule(L) # "none" /\ ~anchorOk THEN 1 ELSE 0),
   kicked |-> f.kicked]

\* The participants whose nudge the store accepts, for list L: all of them
\* or none when the check runs, and nothing to choose when it does not.
NudgeOutcomes(L) ==
  IF Len(L) > 0 /\ Len(L) % CheckEvery = 0 THEN {Users, {}} ELSE {Users}

\* The store outcomes that matter to the effect for list L of view c.
AnchorOutcomes(L) == IF AnchorRule(L) # "none" THEN BOOLEAN ELSE {TRUE}

\* --------------------------------------------------------- the handlers

\* Bounds of the model.
MaxMsgs == 4

\* The runs of callAgent that differ in what they do.
AgentRuns ==
  {[NoRun EXCEPT !.llm = l] : l \in {"httpError", "noReply"}}
    \cup {[NoRun EXCEPT !.llm = "ok", !.insOk = FALSE]}
    \cup {[llm |-> "ok", insOk |-> TRUE, resp |-> r, nodeFail |-> nf] :
            r \in ExtractLlm, nf \in SUBSET {1, 2}}

RelevantRun(run) == run.nodeFail \subseteq 1..Len(run.resp.concepts)

Joined(ps, c) == \E i \in 1..Len(ps) : ps[i] = c

\* loadSession up to the message select: the session is set (the channel is
\* subscribed from here on) and the user joins as a participant.
LoadBegin(c) ==
  /\ phase[c] = "init"
  /\ phase' = [phase EXCEPT ![c] = "joined"]
  /\ session' = [session EXCEPT ![c] = TRUE]
  /\ cursor' = [cursor EXCEPT ![c] = Len(msgs)]
  /\ participants' = IF Joined(participants, c) THEN participants
                     ELSE Append(participants, c)
  /\ ev' = [NoEv EXCEPT !.op = "loadBegin", !.c = c, !.msgs0 = msgs,
                        !.nodes0 = nodes, !.edges0 = edges]
  /\ UNCHANGED <<msgs, nodes, edges, status, summaries, pmsgs>>
  /\ UNCHANGED <<snap, local, sending, pend, lastAgentCalled, armed, ticks, privVars>>
  /\ UNCHANGED <<fired, inact>>

\* The select of the session's messages, ordered by created_at.
LoadSelect(c, selOk) ==
  /\ phase[c] = "joined"
  /\ phase' = [phase EXCEPT ![c] = IF selOk THEN "selected" ELSE "loaded"]
  /\ snap' = [snap EXCEPT ![c] = [i \in 1..Len(msgs) |-> i]]
  /\ ev' = [NoEv EXCEPT !.op = "loadSelect", !.c = c, !.ins = selOk, !.msgs0 = msgs,
                        !.nodes0 = nodes, !.edges0 = edges]
  /\ UNCHANGED storeVars
  /\ UNCHANGED <<session, cursor, local, sending, pend, lastAgentCalled, armed, ticks,
                 privVars>>
  /\ UNCHANGED <<fired, inact>>

\* A plausible slip: the effect sets its interval without clearing the one
\* that runs.
timerEffectNoCleanup(live, sess, L) == IF sess /\ Len(L) > 0 THEN live + 1 ELSE live

\* The inactivity effect on [session, messages]: the cleanup of the run
\* before clears the interval the ref holds; an interval is then set when
\* there is a session and a message.
timerEffect(live, sess, L) ==
  LET cleared == IF live > 0 THEN live - 1 ELSE 0
  IN IF sess /\ Len(L) > 0 THEN cleared + 1 ELSE cleared

\* What a change of the messages state of view c to L does: the effect on
\* [messages] and the timer effect on [session, messages].
MessagesChanged(c, L, greeting, anchorOk, nudgeOk, anchorFirst) ==
  /\ local' = [local EXCEPT ![c] = L]
  /\ msgs' = msgs \o EffectInserts(msgs, participants, c, L, anchorOk, nudgeOk, anchorFirst)
                  \o greeting
  /\ fired' = [fired EXCEPT ![c] = FiredAfter(fired[c], L, anchorOk)]
  /\ armed' = [armed EXCEPT ![c] = timerEffect(armed[c], session[c], L)]
  /\ ticks' = [ticks EXCEPT ![c] = IF Len(L) > 0 THEN 0 ELSE ticks[c]]

\* setMessages(messagesData), and the greeting when the session is empty.
LoadApply(c, greetOk, anchorOk, nudgeOk, anchorFirst) ==
  /\ phase[c] = "selected"
  /\ phase' = [phase EXCEPT ![c] = "loaded"]
  /\ MessagesChanged(c, snap[c],
                     IF Len(snap[c]) = 0 /\ greetOk
                     THEN <<Msg("facilitator", NoUser, FALSE, "greeting")>> ELSE <<>>,
                     anchorOk, nudgeOk, anchorFirst)
  /\ ev' = [NoEv EXCEPT !.op = "loadApply", !.c = c, !.ins = greetOk, !.msgs0 = msgs,
                        !.nodes0 = nodes, !.edges0 = edges,
                        !.anchorOk = anchorOk, !.nudgeOk = nudgeOk]
  /\ UNCHANGED <<nodes, edges, status, summaries, participants, pmsgs>>
  /\ UNCHANGED <<session, snap, cursor, sending, pend, lastAgentCalled, privVars>>
  /\ UNCHANGED inact

\* The subscription delivers the next insert: the row is appended.
Notify(c, anchorOk, nudgeOk, anchorFirst) ==
  /\ session[c]
  /\ cursor[c] < Len(msgs)
  /\ cursor' = [cursor EXCEPT ![c] = cursor[c] + 1]
  /\ MessagesChanged(c, Append(local[c], cursor[c] + 1), <<>>, anchorOk, nudgeOk, anchorFirst)
  /\ ev' = [NoEv EXCEPT !.op = "notify", !.c = c, !.msgs0 = msgs,
                        !.nodes0 = nodes, !.edges0 = edges,
                        !.anchorOk = anchorOk, !.nudgeOk = nudgeOk]
  /\ UNCHANGED <<nodes, edges, status, summaries, participants, pmsgs>>
  /\ UNCHANGED <<session, phase, snap, sending, pend, lastAgentCalled, privVars>>
  /\ UNCHANGED inact

\* Session.tsx:131, :122 and :127: the timer period and the two thresholds,
\* in seconds.
TickPeriod == 30

KickoffAfter == 60

InactiveAfter == 120

\* How late a tick is against its period, in seconds: on time, or late.
Jitter == {0, 1}

\* A tick of a throttled page: the callback comes 91 seconds after its time.
LateTick == {91}

\* messages.filter(m => m.agent_type === agent).length over the list L.
CountOf(ms, L, agent) == Cardinality({i \in 1..Len(L) : ms[L[i]].agent_type = agent})

\* A plausible slip: the branches of the conditional the other way round.
nextAgentSwapped(last) == IF last = "spark" THEN "spark" ELSE "probe"

\* triggerAgentForInactivity: the persona to invoke, from lastAgentCalledRef.
nextAgent(last) == IF last = "spark" THEN "probe" ELSE "spark"

\* A plausible slip: the ref is set once the reply is in, not before the call.
lastAgentAfterReply(last, run) == IF run.llm = "ok" THEN nextAgent(last) ELSE last

\* lastAgentCalledRef after triggerAgentForInactivity: set before the call.
lastAgentAfter(last, run) == nextAgent(last)

\* A plausible slip: a failed inactivity call stops the rules of later ticks.
TickRuleStopsAfterFailure(c, jitter) ==
  LET timeSinceLastActivity == TickPeriod * (ticks[c] + 1) + jitter IN
  IF inact[c].last # "none" /\ ~inact[c].lastOk THEN "idle"
  ELSE IF /\ CountOf(msgs, local[c], "facilitator") = 1
          /\ CountOf(msgs, local[c], "user") = 0
          /\ timeSinceLastActivity > KickoffAfter
  THEN "kickoff"
  ELSE IF timeSinceLastActivity > InactiveAfter THEN "inactivity"
  ELSE "idle"

\* A plausible slip: the two branches of the callback in the other order.
TickRuleInactivityFirst(c, jitter) ==
  LET timeSinceLastActivity == TickPeriod * (ticks[c] + 1) + jitter IN
  IF timeSinceLastActivity > InactiveAfter THEN "inactivity"
  ELSE IF /\ CountOf(msgs, local[c], "facilitator") = 1
          /\ CountOf(msgs, local[c], "user") = 0
          /\ timeSinceLastActivity > KickoffAfter
  THEN "kickoff"
  ELSE "idle"

\* The rule a tick of view c fires when it comes `jitter` late.
TickRule(c, jitter) ==
  LET timeSinceLastActivity == TickPeriod * (ticks[c] + 1) + jitter IN
  IF /\ CountOf(msgs, local[c], "facilitator") = 1
     /\ CountOf(msgs, local[c], "user") = 0
     /\ timeSinceLastActivity > KickoffAfter
  THEN "kickoff"
  ELSE IF timeSinceLastActivity > InactiveAfter THEN "inactivity"
  ELSE "idle"

\* One firing of the interval callback of view c. The messages it reads are
\* those of the render that armed it: the timer is re-armed on every change.
Tick(c, jitter, run) ==
  /\ armed[c] > 0
  /\ LET rule == TickRule(c, jitter)
         seen == [NoEv EXCEPT !.op = "tick", !.c = c, !.result = rule,
                              !.msgs0 = msgs, !.nodes0 = nodes, !.edges0 = edges,
                              !.elapsed = TickPeriod * (ticks[c] + 1) + jitter,
                              !.facil = CountOf(msgs, local[c], "facilitator"),
                              !.users = CountOf(msgs, local[c], "user"),
                              !.last0 = lastAgentCalled[c],
                              !.view = local[c]]
         agent == IF rule = "kickoff" THEN "spark" ELSE nextAgent(lastAgentCalled[c])
         prompt == IF rule = "kickoff" THEN "kickoffPrompt"
                   ELSE IF agent = "spark" THEN "nudgeSparkPrompt" ELSE "nudgeProbePrompt"
         r == callAgent(msgs, nodes, agent, prompt, HistoryOf(msgs, local[c]),
                        run.llm, run.insOk, run.resp, run.nodeFail)
     IN IF rule = "idle"
        THEN /\ run = NoRun
             /\ ticks' = [ticks EXCEPT ![c] = ticks[c] + 1]
             /\ ev' = seen
             /\ UNCHANGED <<msgs, nodes, lastAgentCalled, inact, fired>>
        ELSE /\ RelevantRun(run)
             /\ ticks' = [ticks EXCEPT ![c] = 0]
             /\ msgs' = r.msgs
             /\ nodes' = r.nodes
             /\ lastAgentCalled' =
                  IF rule = "inactivity"
                  THEN [lastAgentCalled EXCEPT ![c] = lastAgentAfter(lastAgentCalled[c], run)]
                  ELSE lastAgentCalled
             /\ inact' = IF rule = "inactivity"
                         THEN [inact EXCEPT ![c] = [prev |-> inact[c].last, prevOk |-> inact[c].lastOk,
                                                    last |-> agent, lastOk |-> run.llm = "ok",
                                                    odd |-> ~inact[c].odd]]
                         ELSE inact
             /\ fired' = IF rule = "kickoff"
                         THEN [fired EXCEPT ![c].kicked = TRUE]
                         ELSE fired
             /\ ev' = [seen EXCEPT !.run = run, !.calls = r.calls, !.toasts = r.toasts,
                                   !.extracts = r.extracts]
  /\ UNCHANGED <<edges, status, summaries, participants, pmsgs>>
  /\ UNCHANGED <<session, phase, snap, cursor, local, sending, pend, armed, privVars>>

\* handleSendMessage without a mention, run by a client of user u that is
\* not kept as a view: the user's message is inserted.
EnvInsert(u) ==
  /\ msgs' = Append(msgs, Msg("user", u, FALSE, "hello"))
  /\ ev' = [NoEv EXCEPT !.op = "envInsert", !.c = u, !.text = "hello", !.msgs0 = msgs,
                        !.nodes0 = nodes, !.edges0 = edges]
  /\ UNCHANGED <<nodes, edges, status, summaries, participants, pmsgs>>
  /\ UNCHANGED viewVars
  /\ UNCHANGED <<fired, inact>>

\* handleSendMessage up to the agent call: the user's message is inserted
\* (the insert's error is not looked at) and the text is scanned for a
\* mention. Without a mention the handler is done.
SendStart(c, text, auth, insOk) ==
  /\ phase[c] = "loaded"
  /\ session[c]
  /\ ~sending[c]
  /\ auth \/ insOk
  /\ LET mentionedAgent == MentionOf[text] IN
     /\ msgs' = IF auth /\ insOk THEN Append(msgs, Msg("user", c, FALSE, text)) ELSE msgs
     /\ sending' = [sending EXCEPT ![c] = auth /\ mentionedAgent # "null"]
     /\ pend' = [pend EXCEPT ![c] =
                   IF auth /\ mentionedAgent # "null"
                   THEN [active |-> TRUE, text |-> text, hist |-> local[c], ins |-> insOk]
                   ELSE NoPend]
     /\ ev' = [NoEv EXCEPT !.op = "sendStart", !.c = c, !.text = text, !.auth = auth,
                           !.ins = insOk, !.result = mentionedAgent,
                           !.msgs0 = msgs, !.nodes0 = nodes,
                           !.edges0 = edges,
                           !.toasts = IF auth THEN <<>> ELSE <<"Error">>]
  /\ UNCHANGED <<nodes, edges, status, summaries, participants, pmsgs>>
  /\ UNCHANGED <<session, phase, snap, cursor, local, lastAgentCalled, armed, ticks,
                 privVars>>
  /\ UNCHANGED <<fired, inact>>

\* The rest of handleSendMessage: callAgent for the mentioned persona, with
\* the history of the render the handler belongs to, then setSending(false).
SendAgent(c, run) ==
  /\ pend[c].active
  /\ RelevantRun(run)
  /\ LET mentionedAgent == MentionOf[pend[c].text]
         r == callAgent(msgs, nodes, mentionedAgent, pend[c].text,
                        HistoryOf(msgs, pend[c].hist),
                        run.llm, run.insOk, run.resp, run.nodeFail)
     IN /\ msgs' = r.msgs
        /\ nodes' = r.nodes
        /\ ev' = [NoEv EXCEPT !.op = "sendAgent", !.c = c, !.text = pend[c].text,
                              !.result = mentionedAgent, !.run = run,
                              !.msgs0 = msgs, !.nodes0 = nodes,
                              !.edges0 = edges, !.calls = r.calls,
                              !.toasts = r.toasts, !.extracts = r.extracts,
                              !.userIns = pend[c].ins, !.view = pend[c].hist]
  /\ sending' = [sending EXCEPT ![c] = FALSE]
  /\ pend' = [pend EXCEPT ![c] = NoPend]
  /\ UNCHANGED <<edges, status, summaries, participants, pmsgs>>
  /\ UNCHANGED <<session, phase, snap, cursor, local, lastAgentCalled, armed, ticks,
                 privVars>>
  /\ UNCHANGED <<fired, inact>>

\* The Session page of view c is unmounted after its load: the cleanups of
\* its effects remove the channel and clear the interval, and the private
\* dialog goes with the page. A handler under way runs on.
Unmount(c) ==
  /\ phase[c] = "loaded"
  /\ phase' = [phase EXCEPT ![c] = "closed"]
  /\ session' = [session EXCEPT ![c] = FALSE]
  /\ armed' = [armed EXCEPT ![c] = IF armed[c] > 0 THEN armed[c] - 1 ELSE 0]
  /\ popen' = [popen EXCEPT ![c] = FALSE]
  /\ ev' = [NoEv EXCEPT !.op = "unmount", !.c = c, !.msgs0 = msgs, !.nodes0 = nodes,
                        !.edges0 = edges]
  /\ UNCHANGED storeVars
  /\ UNCHANGED <<snap, cursor, local, sending, pend, lastAgentCalled, ticks, plocal,
                 pcursor, ppend>>
  /\ UNCHANGED <<fired, inact>>

\* A plausible slip: the insert of handleSendMessage copied with its user_id.
anonymousMessageWithAuthor(user, reply) == Msg("user", user, TRUE, reply)

\* The row handleSendDM inserts: the facilitator's rephrasing, tagged user
\* and anonymous; the user of getUser is in scope and is not written.
anonymousMessage(user, reply) == Msg("user", NoUser, TRUE, reply)

\* handleSendDM: chat-agent rephrases the idea as the facilitator and the
\* reply is inserted as an anonymous user message (the insert's error is
\* not looked at). SessionHeader is rendered without onSendDM, so the
\* handler runs only for a caller that holds it.
SendDM(c, text, auth, llm, insOk) ==
  /\ phase[c] = "loaded"
  /\ session[c]
  /\ LET r == ChatAgent(llm)
         call == [agent |-> "facilitator", message |-> text,
                  history |-> SliceLast(HistoryOf(msgs, local[c]), HistoryWindow)]
         failed == ~auth \/ r.error
     IN /\ msgs' = IF ~failed /\ insOk
                   THEN Append(msgs, anonymousMessage(c, r.reply))
                   ELSE msgs
        /\ ev' = [NoEv EXCEPT !.op = "sendDM", !.c = c, !.text = text, !.auth = auth,
                              !.ins = insOk, !.msgs0 = msgs, !.nodes0 = nodes,
                              !.edges0 = edges, !.view = local[c],
                              !.calls = IF auth THEN <<call>> ELSE <<>>,
                              !.error = failed,
                              !.toasts = IF failed THEN <<"Error sending DM">>
                                         ELSE <<"Idea shared anonymously">>]
  /\ sending' = [sending EXCEPT ![c] = FALSE]
  /\ UNCHANGED <<nodes, edges, status, summaries, participants, pmsgs>>
  /\ UNCHANGED <<session, phase, snap, cursor, local, pend, lastAgentCalled, armed, ticks,
                 privVars>>
  /\ UNCHANGED <<fired, inact>>

\* ------------------------------------------------------- ending a session

MaxSummaries == 1

SummaryRuns ==
  {[NoSummaryRun EXCEPT !.llm = l] : l \in {"httpError", "noToolCall"}}
    \cup {[NoSummaryRun EXCEPT !.llm = "ok", !.img = "httpError"]}
    \cup {[llm |-> "ok", img |-> i, insOk |-> b] : i \in {"ok", "noImage"}, b \in BOOLEAN}

\* The generate-session-summary function: it inserts one summary row and
\* answers success, or answers status 500 having written nothing. Any throw
\* on the way (no messages, a failed summary call, no tool call, a failed
\* image call, a rejected insert) ends in the 500.
generateSessionSummary(ms, sums, run) ==
  IF \/ Len(ms) = 0
     \/ run.llm # "ok"
     \/ run.img = "httpError"
     \/ ~run.insOk
  THEN [error |-> TRUE, summaries |-> sums]
  ELSE [error |-> FALSE, summaries |-> Append(sums, [image |-> run.img = "ok"])]

\* A plausible slip: the button toggles the status.
statusAfterEndToggles(st, c, updOk) ==
  IF c = Creator /\ updOk THEN (IF st = "ended" THEN "active" ELSE "ended") ELSE st

\* sessions.status after update({ status: 'ended' }): the update policy lets
\* the row change only for the session's creator; for anyone else, and when
\* the store fails (updOk), the row stays as it is and nothing is raised.
statusAfterEnd(st, c, updOk) == IF c = Creator /\ updOk THEN "ended" ELSE st

\* handleEndSession. mindMapExportRef.current is never assigned, so no
\* snapshot is taken.
EndSession(c, run, updOk) ==
  /\ phase[c] = "loaded"
  /\ session[c]
  /\ LET g == generateSessionSummary(msgs, summaries, run) IN
     /\ summaries' = g.summaries
     /\ status' = statusAfterEnd(status, c, updOk)
     /\ ev' = [NoEv EXCEPT !.op = "endSession", !.c = c, !.ins = updOk, !.srun = run,
                           !.status0 = status, !.sums0 = summaries,
                           !.result = IF g.error THEN "error" ELSE "ok",
                           !.msgs0 = msgs, !.nodes0 = nodes,
                           !.edges0 = edges,
                           !.toasts = <<"Generating summary...",
                                        IF g.error THEN "Warning" ELSE "Summary generated!",
                                        "Session ended">>]
  /\ UNCHANGED <<msgs, nodes, edges, participants, pmsgs>>
  /\ UNCHANGED viewVars
  /\ UNCHANGED <<fired, inact>>

\* handleDelete of SessionSummaryDialog: the dialog holds a summary only
\* when the select with .single() found exactly one row; the delete policy
\* lets only the session's creator delete it.
DeleteSummary(c, delOk) ==
  /\ phase[c] = "loaded"
  /\ Len(summaries) = 1
  /\ summaries' = IF c = Creator /\ delOk THEN <<>> ELSE summaries
  /\ ev' = [NoEv EXCEPT !.op = "deleteSummary", !.c = c, !.ins = delOk,
                        !.msgs0 = msgs, !.nodes0 = nodes, !.edges0 = edges,
                        !.toasts = IF delOk THEN <<"Success">> ELSE <<"Error">>]
  /\ UNCHANGED <<msgs, nodes, edges, status, participants, pmsgs>>
  /\ UNCHANGED viewVars
  /\ UNCHANGED <<fired, inact>>

\* ----------------------------------------------------- the private chat

MaxPriv == 3

\* A row of public.private_messages of one user.
PrivMsg(fromFacilitator, content) == [from_facilitator |-> fromFacilitator, content |-> content]

\* The announcement the completion service writes for an idea.
AnnounceText(idea) ==
  CASE idea = "p_idea" -> "announce_idea"
    [] idea = "p_refined" -> "announce_refined"
    [] idea = "p_yes" -> "announce_yes"
    [] idea = "p_no" -> "announce_no"


ShareRuns ==
  {[NoPrivRun EXCEPT !.share = x] : x \in {"throws", "httpError", "noContent"}}
    \cup {[NoPrivRun EXCEPT !.share = "ok", !.shareIns = FALSE]}
    \cup {[NoPrivRun EXCEPT !.share = "ok", !.resp = r] :
            r \in {[kind |-> "httpError", concepts |-> <<>>],
                   [kind |-> "tool", concepts |-> <<>>],
                   [kind |-> "tool", concepts |-> <<Concept("fox", {})>>]}}
    \cup {[NoPrivRun EXCEPT !.share = "ok", !.nodeFail = {1},
                            !.resp = [kind |-> "tool", concepts |-> <<Concept("fox", {})>>]]}

\* The conversation call answers an error, nothing, or one of the replies
\* that fit the prompt of the branch.
TalkRuns(branch) ==
  {[NoPrivRun EXCEPT !.llm = x] : x \in {"httpError", "noReply"}}
    \cup {[NoPrivRun EXCEPT !.llm = "ok", !.reply = t] :
            t \in IF branch = "decline" THEN {"f_more", "f_keep"} ELSE {"f_more", "f_ask"}}

\* isAskingToShare: the last facilitator message of the history holds both
\* "share" and "group"; false when there is none.
isAskingToShare(history) ==
  LET fromFacilitator == SelectSeq(history, LAMBDA m : m.from_facilitator) IN
  /\ Len(fromFacilitator) > 0
  /\ AsksOf[fromFacilitator[Len(fromFacilitator)].content]

\* userIdeas.slice(-2)[0] || userMessage.
ideaToShare(history, userMessage) ==
  LET userIdeas == SelectSeq(history, LAMBDA m : ~m.from_facilitator)
      lastTwo == SliceLast(userIdeas, 2)
  IN IF Len(lastTwo) > 0 THEN lastTwo[1].content ELSE userMessage

\* The nodes the share branch inserts: one per concept, none when the
\* extraction answered an error; a failure here is caught and logged.
shareConcepts(ns, messageId, resp, nodeFail) ==
  LET data == ExtractConcepts(resp)
      kept == SelectSeq([i \in 1..Len(data.concepts) |-> i], LAMBDA i : i \notin nodeFail)
  IN IF data.error THEN ns
     ELSE ns \o [k \in 1..Len(kept) |->
                   Node(data.concepts[kept[k]].label, "facilitator", messageId, {})]

\* A plausible slip: an affirmative message shares whatever was asked.
privateBranchYesShares(history, userMessage) ==
  IF YesOf[userMessage] THEN "share"
  ELSE IF isAskingToShare(history) /\ NoOf[userMessage] THEN "decline"
  ELSE "collect"

\* The branch the function takes.
privateBranch(history, userMessage) ==
  IF isAskingToShare(history) /\ YesOf[userMessage] THEN "share"
  ELSE IF isAskingToShare(history) /\ NoOf[userMessage] THEN "decline"
  ELSE "collect"

\* A plausible slip: a failed conversation call is answered with a stock
\* reply in place of an error.
privateFacilitatorFallsBack(ms, ns, userMessage, history, run) ==
  IF privateBranch(history, userMessage) = "share" /\ run.share = "throws"
  THEN [error |-> TRUE, reply |-> "no-reply", shared |-> FALSE,
        msgs |-> ms, nodes |-> ns, idea |-> ideaToShare(history, userMessage),
        extracts |-> <<>>]
  ELSE IF privateBranch(history, userMessage) = "share"
  THEN LET idea == ideaToShare(history, userMessage)
           posted == run.share = "ok" /\ run.shareIns
       IN [error |-> FALSE, reply |-> "f_ack", shared |-> TRUE,
           msgs |-> IF posted
                    THEN Append(ms, Msg("facilitator", NoUser, FALSE, AnnounceText(idea)))
                    ELSE ms,
           nodes |-> IF posted
                     THEN shareConcepts(ns, Len(ms) + 1, run.resp, run.nodeFail)
                     ELSE ns,
           idea |-> idea,
           extracts |-> extractRequests(AnnounceText(idea), "facilitator", posted)]
  ELSE [error |-> FALSE, reply |-> IF run.llm = "ok" THEN run.reply ELSE "f_more",
        shared |-> FALSE, msgs |-> ms, nodes |-> ns, idea |-> "", extracts |-> <<>>]

\* The private-facilitator function: what it answers and the store after it.
\* In the share branch the announcement is inserted only when the completion
\* call is ok and holds content; the acknowledgment with shared: true is
\* answered whenever the call itself did not throw.
privateFacilitator(ms, ns, userMessage, history, run) ==
  IF privateBranch(history, userMessage) = "share" /\ run.share = "throws"
  THEN [error |-> TRUE, reply |-> "no-reply", shared |-> FALSE,
        msgs |-> ms, nodes |-> ns, idea |-> ideaToShare(history, userMessage),
        extracts |-> <<>>]
  ELSE IF privateBranch(history, userMessage) = "share"
  THEN LET idea == ideaToShare(history, userMessage)
           posted == run.share = "ok" /\ run.shareIns
       IN [error |-> FALSE, reply |-> "f_ack", shared |-> TRUE,
           msgs |-> IF posted
                    THEN Append(ms, Msg("facilitator", NoUser, FALSE, AnnounceText(idea)))
                    ELSE ms,
           nodes |-> IF posted
                     THEN shareConcepts(ns, Len(ms) + 1, run.resp, run.nodeFail)
                     ELSE ns,
           idea |-> idea,
           extracts |-> extractRequests(AnnounceText(idea), "facilitator", posted)]
  ELSE IF run.llm = "ok"
  THEN [error |-> FALSE, reply |-> run.reply, shared |-> FALSE,
        msgs |-> ms, nodes |-> ns, idea |-> "", extracts |-> <<>>]
  ELSE [error |-> TRUE, reply |-> "no-reply", shared |-> FALSE,
        msgs |-> ms, nodes |-> ns, idea |-> "", extracts |-> <<>>]

\* The conversationHistory a private send hands over: the rows of plocal.
PrivHistory(c, L) == [i \in 1..Len(L) |-> pmsgs[c][L[i]]]

\* The dialog opens: the user's private messages are loaded and the channel
\* is subscribed.
PrivOpen(c) ==
  /\ phase[c] = "loaded"
  /\ ~popen[c]
  /\ popen' = [popen EXCEPT ![c] = TRUE]
  /\ plocal' = [plocal EXCEPT ![c] = [i \in 1..Len(pmsgs[c]) |-> i]]
  /\ pcursor' = [pcursor EXCEPT ![c] = Len(pmsgs[c])]
  /\ ev' = [NoEv EXCEPT !.op = "privOpen", !.c = c, !.msgs0 = msgs,
                        !.nodes0 = nodes, !.edges0 = edges]
  /\ UNCHANGED storeVars
  /\ UNCHANGED <<session, phase, snap, cursor, local, sending, pend, lastAgentCalled,
                 armed, ticks, ppend>>
  /\ UNCHANGED <<fired, inact>>

\* The private subscription delivers the next insert.
PrivNotify(c) ==
  /\ popen[c]
  /\ pcursor[c] < Len(pmsgs[c])
  /\ pcursor' = [pcursor EXCEPT ![c] = pcursor[c] + 1]
  /\ plocal' = [plocal EXCEPT ![c] = Append(plocal[c], pcursor[c] + 1)]
  /\ ev' = [NoEv EXCEPT !.op = "privNotify", !.c = c, !.msgs0 = msgs,
                        !.nodes0 = nodes, !.edges0 = edges]
  /\ UNCHANGED storeVars
  /\ UNCHANGED <<session, phase, snap, cursor, local, sending, pend, lastAgentCalled,
                 armed, ticks, popen, ppend>>
  /\ UNCHANGED <<fired, inact>>

\* handleSend of the private chat up to the coordinator call: the user's
\* private message is inserted (the insert's error is not looked at).
PrivSendStart(c, text, auth, insOk) ==
  /\ popen[c]
  /\ ~ppend[c].active
  /\ auth \/ insOk
  /\ pmsgs' = [pmsgs EXCEPT ![c] =
                 IF auth /\ insOk THEN Append(pmsgs[c], PrivMsg(FALSE, text)) ELSE pmsgs[c]]
  /\ ppend' = [ppend EXCEPT ![c] =
                 IF auth THEN [active |-> TRUE, text |-> text, hist |-> plocal[c],
                            ins |-> insOk]
                 ELSE NoPend]
  /\ ev' = [NoEv EXCEPT !.op = "privSendStart", !.c = c, !.text = text, !.auth = auth,
                        !.ins = insOk, !.msgs0 = msgs, !.nodes0 = nodes,
                        !.thread0 = pmsgs[c],
                        !.edges0 = edges,
                        !.toasts = IF auth THEN <<>> ELSE <<"Error">>]
  /\ UNCHANGED <<msgs, nodes, edges, status, summaries, participants>>
  /\ UNCHANGED <<session, phase, snap, cursor, local, sending, pend, lastAgentCalled,
                 armed, ticks, popen, plocal, pcursor>>
  /\ UNCHANGED <<fired, inact>>

\* The rest of handleSend: the private-facilitator function runs with the
\* history of the render the handler belongs to, and its reply is inserted
\* as a private message of the facilitator.
PrivSendCoord(c, run, insOk) ==
  /\ ppend[c].active
  /\ LET history == PrivHistory(c, ppend[c].hist)
         branch == privateBranch(history, ppend[c].text)
         r == privateFacilitator(msgs, nodes, ppend[c].text, history, run)
     IN /\ IF branch = "share" THEN run \in ShareRuns ELSE run \in TalkRuns(branch)
        /\ r.error => insOk
        /\ msgs' = r.msgs
        /\ nodes' = r.nodes
        /\ pmsgs' = [pmsgs EXCEPT ![c] =
                       IF ~r.error /\ insOk THEN Append(pmsgs[c], PrivMsg(TRUE, r.reply))
                       ELSE pmsgs[c]]
        /\ ev' = [NoEv EXCEPT !.op = "privSendCoord", !.c = c, !.text = ppend[c].text,
                              !.ins = insOk, !.result = branch, !.hist = history,
                              !.shared = r.shared, !.error = r.error, !.idea = r.idea,
                              !.msgs0 = msgs, !.nodes0 = nodes,
                              !.edges0 = edges, !.extracts = r.extracts,
                              !.prun = run, !.userIns = ppend[c].ins,
                              !.thread0 = pmsgs[c],
                              !.toasts = IF r.error THEN <<"Error">> ELSE <<>>]
  /\ ppend' = [ppend EXCEPT ![c] = NoPend]
  /\ UNCHANGED <<edges, status, summaries, participants>>
  /\ UNCHANGED <<session, phase, snap, cursor, local, sending, pend, lastAgentCalled,
                 armed, ticks, popen, plocal, pcursor>>
  /\ UNCHANGED <<fired, inact>>

\* ------------------------------------------------------ the specifications

InitStore ==
  /\ msgs = <<>>
  /\ nodes = <<>>
  /\ edges = <<>>
  /\ status = "active"
  /\ summaries = <<>>
  /\ participants = <<>>
  /\ pmsgs = [u \in Users |-> <<>>]

InitViews ==
  /\ session = [c \in Users |-> FALSE]
  /\ phase = [c \in Users |-> "init"]
  /\ snap = [c \in Users |-> <<>>]
  /\ cursor = [c \in Users |-> 0]
  /\ local = [c \in Users |-> <<>>]
  /\ sending = [c \in Users |-> FALSE]
  /\ pend = [c \in Users |-> NoPend]
  /\ lastAgentCalled = [c \in Users |-> "probe"]
  /\ armed = [c \in Users |-> 0]
  /\ ticks = [c \in Users |-> 0]
  /\ popen = [c \in Users |-> FALSE]
  /\ plocal = [c \in Users |-> <<>>]
  /\ pcursor = [c \in Users |-> 0]
  /\ ppend = [c \in Users |-> NoPend]

InitHist ==
  /\ ev = NoEv
  /\ fired = [c \in Users |-> [reminder |-> 0, prompt |-> 0, rejected |-> 0,
                                kicked |-> FALSE]]
  /\ inact = [c \in Users |-> [prev |-> "none", prevOk |-> TRUE,
                                last |-> "none", lastOk |-> TRUE, odd |-> FALSE]]

Init == InitStore /\ InitViews /\ InitHist

\* ------------------------------------------------------------ the chat

\* The runs of callAgent the chat specifications draw from.
ChatRuns ==
  {run \in AgentRuns : run.nodeFail = {} /\ Len(run.resp.concepts) <= 1}

\* What the user of the chat specifications types.
SendTexts == {"hello", "probe_spark"}

\* One view, of the session's creator: loading, notifications and sends.
Next ==
  \/ LoadBegin("u1")
  \/ \E selOk \in BOOLEAN : LoadSelect("u1", selOk)
  \/ \E greetOk \in BOOLEAN : LoadApply("u1", greetOk, TRUE, {}, TRUE)
  \/ Notify("u1", TRUE, {}, TRUE)
  \/ /\ Len(msgs) < MaxMsgs
     /\ \E text \in SendTexts, auth \in BOOLEAN, insOk \in BOOLEAN :
          SendStart("u1", text, auth, insOk)
  \/ \E run \in ChatRuns : SendAgent("u1", run)

Spec == Init /\ [][Next]_vars

\* ----------------------------------------------------------- the timer

\* The runs of callAgent a timer rule draws from.
TimerRuns == {run \in ChatRuns : run.llm # "ok" \/ run.resp.kind = "noToolCall"}

\* One view with its interval timer.
NextTimer ==
  \/ LoadBegin("u1")
  \/ LoadSelect("u1", TRUE)
  \/ LoadApply("u1", TRUE, TRUE, {}, TRUE)
  \/ Notify("u1", TRUE, {}, TRUE)
  \/ /\ Len(msgs) < MaxMsgs
     /\ \E text \in SendTexts : SendStart("u1", text, TRUE, TRUE)
  \/ \E run \in TimerRuns : SendAgent("u1", run)
  \/ /\ Len(msgs) < MaxMsgs
     /\ \E jitter \in Jitter \cup LateTick, run \in TimerRuns : Tick("u1", jitter, run)

SpecTimer == Init /\ [][NextTimer]_vars

\* ------------------------------------------------------ mention detection

MaxPieces == 3

\* The pieces the scanned texts are put together from: the four tokens in
\* mixed case, plain words, and near misses of a token.
DetectPieces ==
  { <<"@","S","p","a","r","k">>, <<"@","P","R","O","B","E">>,
    <<"@","f","a","c","i","l","i","t","a","t","o","R">>, <<"@","A","n","c","h","o","r">>,
    <<"h","i"," ">>, <<"@","s","p","a","r">>, <<"p","r","o","b","e">> }

RECURSIVE Concat(_)
Concat(ss) == IF Len(ss) = 0 THEN <<>> ELSE Head(ss) \o Concat(Tail(ss))

DetectTexts ==
  { Concat(ss) : ss \in UNION {[1..n -> DetectPieces] : n \in 0..MaxPieces} }

\* handleSendMessage scans the text the user typed.
Detect(message) ==
  /\ ev' = [NoEv EXCEPT !.op = "detectAgent", !.chars = message,
                        !.result = detectAgent(message)]
  /\ UNCHANGED <<storeVars, viewVars, fired, inact>>

\* One scan per behaviour, of any of the texts.
NextDetect ==
  /\ ev.op = "none"
  /\ \E message \in DetectTexts : Detect(message)

SpecDetect == Init /\ [][NextDetect]_vars

\* Two characters are the same letter, whatever their case.
SameLetter(a, b) ==
  \/ a = b
  \/ \E i \in 1..Len(LowerLetters) :
       {a, b} = {LowerLetters[i], UpperLetters[i]}

\* The token occurs in the text as a case-insensitive substring.
OccursIn(token, text) ==
  \E i \in 1..Len(text) :
    /\ i + Len(token) - 1 <= Len(text)
    /\ \A k \in 1..Len(token) : SameLetter(text[i + k - 1], token[k])

\* The personas in their fixed priority order, each with its token.
Priority ==
  << [persona |-> "spark", token |-> AtSpark], [persona |-> "probe", token |-> AtProbe],
     [persona |-> "facilitator", token |-> AtFacilitator],
     [persona |-> "anchor", token |-> AtAnchor] >>

\* C1: for every text, detectAgent answers the first persona of the
\* priority order whose token occurs in the text as a case-insensitive
\* substring, wherever the tokens stand in the text, and answers none
\* ("null") exactly when no token occurs; the answer is a single persona.
C1_FirstByPriority ==
  ev.op = "detectAgent" =>
    LET found == {i \in 1..Len(Priority) : OccursIn(Priority[i].token, ev.chars)} IN
    IF found = {} THEN ev.result = "null"
    ELSE /\ \E i \in found :
              /\ \A j \in found : i <= j
              /\ ev.result = Priority[i].persona
         /\ ev.result \in {"spark", "probe", "facilitator", "anchor"}

\* A text with @PROBE before @Spark was scanned and routed to spark.
C1_Witness ==
  /\ ev.op = "detectAgent"
  /\ ev.chars = <<"@","P","R","O","B","E">> \o <<"h","i"," ">> \o <<"@","S","p","a","r","k">>
  /\ ev.result = "spark"

\* ------------------------------------------------------------- sending

\* The text holds one of the four tokens.
HasToken == [t \in ChatTexts |-> \E i \in 1..Len(Priority) :
                                   OccursIn(Priority[i].token, ChatText(t))]

\* C2, as the code has it: a send by an authenticated user adds exactly one
\* user Message of the sender when the store accepts the insert and none
\* when it rejects it; a call to the completion service follows exactly when
\* the text holds a token; the call adds exactly one persona Message, tagged
\* with the mentioned persona, when the service returns a reply and the
\* store accepts the insert, and leaves the messages as they were otherwise.
C2_SendWrites ==
  /\ (ev.op = "sendStart" /\ ev.auth) =>
       /\ msgs = IF ev.ins THEN Append(ev.msgs0, Msg("user", ev.c, FALSE, ev.text))
                 ELSE ev.msgs0
       /\ ev.calls = <<>>
       /\ pend[ev.c].active = HasToken[ev.text]
  /\ ev.op = "sendAgent" =>
       /\ HasToken[ev.text]
       /\ Len(ev.calls) = 1
       /\ ev.calls[1].agent = ev.result
       /\ msgs = IF ev.run.llm = "ok" /\ ev.run.insOk
                 THEN Append(ev.msgs0, Msg(ev.result, NoUser, FALSE, "reply"))
                 ELSE ev.msgs0

\* C2 as stated: every send by an authenticated user adds exactly one user
\* Message of the sender, and its call adds exactly one persona Message
\* exactly when the completion service returns a reply.
C2_AsStated ==
  /\ (ev.op = "sendStart" /\ ev.auth) =>
       /\ msgs = Append(ev.msgs0, Msg("user", ev.c, FALSE, ev.text))
       /\ ev.calls = <<>>
       /\ pend[ev.c].active = HasToken[ev.text]
  /\ ev.op = "sendAgent" =>
       /\ HasToken[ev.text]
       /\ msgs = IF ev.run.llm = "ok"
                 THEN Append(ev.msgs0, Msg(ev.result, NoUser, FALSE, "reply"))
                 ELSE ev.msgs0

\* A send with a mention ran to its end: the user's message is followed by
\* the reply of the mentioned persona.
C2_Witness ==
  /\ ev.op = "sendAgent"
  /\ ev.run.llm = "ok"
  /\ ev.run.insOk
  /\ Len(msgs) >= 2
  /\ msgs[Len(msgs) - 1] = Msg("user", "u1", FALSE, "probe_spark")
  /\ msgs[Len(msgs)] = Msg("spark", NoUser, FALSE, "reply")

\* C3: when the completion call of a persona invocation fails or returns no
\* reply, no persona Message and no ConceptNode is written, every Message of
\* the store is as it was, "Agent error" is raised, and a view whose send
\* made the call has left the sending state.
C3_FailureWritesNothing ==
  (ev.op \in {"sendAgent", "tick"} /\ ev.calls # <<>> /\ ev.run.llm # "ok") =>
    /\ msgs = ev.msgs0
    /\ nodes = ev.nodes0
    /\ ev.toasts = <<"Agent error">>
    /\ ev.op = "sendAgent" => ~sending[ev.c]

\* A send with a mention whose call returned no reply: the user's message
\* is in the store.
C3_Witness ==
  /\ ev.op = "sendAgent"
  /\ ev.run.llm = "noReply"
  /\ \E i \in 1..Len(msgs) : msgs[i] = Msg("user", "u1", FALSE, ev.text)

\* C9: when the extraction response holds an empty concepts list, or no
\* tool call, no ConceptNode and no ConceptEdge is written: the nodes and
\* the edges are as they were.
C9_EmptyExtractionWritesNothing ==
  ( /\ ev.op \in {"sendAgent", "tick"}
    /\ ev.calls # <<>>
    /\ ev.run.llm = "ok"
    /\ ev.run.insOk
    /\ \/ ev.run.resp.kind = "noToolCall"
       \/ ev.run.resp.kind = "tool" /\ ev.run.resp.concepts = <<>> ) =>
    /\ nodes = ev.nodes0
    /\ edges = ev.edges0

\* A reply was stored and its extraction found nothing, in a session whose
\* graph already holds a node.
C9_Witness ==
  /\ ev.op = "sendAgent"
  /\ ev.run.llm = "ok"
  /\ ev.run.insOk
  /\ ev.run.resp = [kind |-> "tool", concepts |-> <<>>]
  /\ Len(msgs) = Len(ev.msgs0) + 1
  /\ Len(nodes) > 0

\* C6: in one view, any two consecutive firings of the inactivity rule
\* invoke different personas, each of spark (ideaGenerator) and probe
\* (critic), whether or not the call of the earlier firing succeeded.
C6_InactivityAlternates ==
  \A c \in Users :
    inact[c].last # "none" =>
      /\ inact[c].last \in {"spark", "probe"}
      /\ inact[c].prev # "none" =>
           /\ inact[c].prev \in {"spark", "probe"}
           /\ inact[c].prev # inact[c].last

\* The inactivity rule fired a second time after a firing whose call failed.
C6_Witness ==
  /\ ev.op = "tick"
  /\ ev.result = "inactivity"
  /\ inact["u1"].prev # "none"
  /\ ~inact["u1"].prevOk

\* ------------------------------------------------------ ending a session

MaxEndMsgs == 2

\* The runs of the summary function the specification draws from: a failed
\* summary call, and a summary stored with its image.
EndRuns == {run \in SummaryRuns : run.llm = "httpError" \/ (run.img = "ok" /\ run.insOk)}

\* The runs of callAgent the specification draws from: a failed call, and a
\* reply whose extraction finds nothing.
EndAgentRuns == {run \in TimerRuns : run.llm # "noReply"}

\* The views of the creator and of another user; either may press End
\* Session and delete the summary, while the creator's view chats and its
\* timer runs.
NextEnd ==
  \/ \E c \in Users : LoadBegin(c)
  \/ \E c \in Users : LoadSelect(c, TRUE)
  \/ \E c \in Users : LoadApply(c, TRUE, TRUE, {}, TRUE)
  \/ Notify("u1", TRUE, {}, TRUE)
  \/ /\ Len(msgs) < MaxEndMsgs
     /\ SendStart("u1", "probe_spark", TRUE, TRUE)
  \/ \E run \in EndAgentRuns : SendAgent("u1", run)
  \/ /\ Len(msgs) < MaxEndMsgs
     /\ \E run \in EndAgentRuns : Tick("u1", 1, run)
  \/ /\ Len(summaries) < MaxSummaries
     /\ \E c \in Users, run \in EndRuns, updOk \in BOOLEAN : EndSession(c, run, updOk)
  \/ \E c \in Users, delOk \in BOOLEAN : DeleteSummary(c, delOk)

SpecEnd == Init /\ [][NextEnd]_vars

\* C10: once the status of the session is ended it is ended in every later
\* state, so it changes from active to ended at most once: no end-session
\* action, load, send, timer rule or summary deletion sets it back to active.
C10_EndedStaysEnded == [][status = "ended" => status' = "ended"]_vars

\* End Session was pressed on a session that was ended already.
C10_Witness ==
  /\ ev.op = "endSession"
  /\ ev.status0 = "ended"
  /\ status = "ended"

\* ------------------------------------------------- the count thresholds

MaxCount == 31

\* The list a notification makes of the messages state of view c.
NextLocal(c) == Append(local[c], cursor[c] + 1)

\* A session driven by one view, of its creator, whose user types a text
\* without a mention again and again.
NextCount ==
  \/ LoadBegin("u1")
  \/ LoadSelect("u1", TRUE)
  \/ \E anchorOk \in AnchorOutcomes(snap["u1"]) : LoadApply("u1", TRUE, anchorOk, {}, TRUE)
  \/ \E anchorOk \in AnchorOutcomes(NextLocal("u1")) : Notify("u1", anchorOk, {}, TRUE)
  \/ /\ Len(msgs) < MaxCount
     /\ SendStart("u1", "hello", TRUE, TRUE)

SpecCount == Init /\ [][NextCount]_vars

AnchorMessages == Cardinality({i \in 1..Len(msgs) : msgs[i].agent_type = "anchor"})

\* C5, as the code has it: in a session driven by a single view with no
\* @anchor mention, once the 30-count rule has fired the reminder and the
\* prompt have been emitted once each, and the store holds the two
\* goal-keeper Messages less those whose insert it rejected: never more
\* than two, and exactly two when it accepted both.
C5_TwoGoalKeeperMessages ==
  fired["u1"].prompt >= 1 =>
    /\ fired["u1"].reminder = 1
    /\ fired["u1"].prompt = 1
    /\ fired["u1"].rejected \in 0..2
    /\ AnchorMessages = 2 - fired["u1"].rejected

\* C5 as stated: once the 30-count rule has fired the store holds exactly
\* two goal-keeper Messages.
C5_AsStated == fired["u1"].prompt >= 1 => AnchorMessages = 2

\* The 30-count rule has fired on a list of 30 messages and both goal-keeper
\* Messages are in the store.
C5_Witness ==
  /\ fired["u1"].prompt = 1
  /\ Len(local["u1"]) = SummaryCount
  /\ AnchorMessages = 2
  /\ msgs[Len(msgs)] = Msg("anchor", NoUser, FALSE, "summaryPrompt")

\* ------------------------------------------- notifications during a load

MaxLoadMsgs == 16

\* The view of a participant loads while the creator writes from a client
\* of their own.
NextLoad ==
  \/ LoadBegin("u2")
  \/ LoadSelect("u2", TRUE)
  \/ \E anchorOk \in AnchorOutcomes(snap["u2"]) : LoadApply("u2", TRUE, anchorOk, {}, TRUE)
  \/ \E anchorOk \in AnchorOutcomes(NextLocal("u2")) : Notify("u2", anchorOk, {}, TRUE)
  \/ /\ Len(msgs) < MaxLoadMsgs
     /\ EnvInsert("u1")

SpecLoad == Init /\ [][NextLoad]_vars

\* C4: in one view, whatever the interleaving of the load and the
\* notifications, the reminder is emitted when the list has length 15 and
\* the prompt when it has length 30, and neither is emitted a second time.
C4_OncePerView ==
  \A c \in Users :
    /\ fired[c].reminder <= 1
    /\ fired[c].prompt <= 1

\* ------------------------------------------------- the private channel

MaxShared == 1

PrivRuns == ShareRuns \cup TalkRuns("decline") \cup TalkRuns("collect")

\* One user with the private chat open; the private sends stop once the
\* group chat holds more than the greeting and MaxShared announcements.
NextPrivate ==
  \/ LoadBegin("u1")
  \/ LoadSelect("u1", TRUE)
  \/ LoadApply("u1", TRUE, TRUE, {}, TRUE)
  \/ PrivOpen("u1")
  \/ PrivNotify("u1")
  \/ /\ Len(pmsgs["u1"]) < MaxPriv
     /\ Len(msgs) <= MaxShared
     /\ \E text \in PrivSendTexts, auth \in BOOLEAN, insOk \in BOOLEAN :
          PrivSendStart("u1", text, auth, insOk)
  \/ \E run \in PrivRuns, insOk \in BOOLEAN : PrivSendCoord("u1", run, insOk)

SpecPrivate == Init /\ [][NextPrivate]_vars

\* The text, trimmed, starts with one of the words, whatever the case.
StartsWithOneOf(words, text) ==
  \E k \in 1..Len(words), i \in 1..(Len(text) + 1) :
    /\ \A j \in 1..(i - 1) : text[j] \in Whitespace
    /\ i + Len(words[k]) - 1 <= Len(text)
    /\ text[i] \notin Whitespace
    /\ \A j \in 1..Len(words[k]) : SameLetter(text[i + j - 1], words[k][j])

Affirmative == [t \in PrivUserTexts |-> StartsWithOneOf(YesWords, PrivText(t))]

Negative == [t \in PrivUserTexts |-> StartsWithOneOf(NoWords, PrivText(t))]

NamesShareAndGroup ==
  [t \in PrivTexts |-> OccursIn(WordShare, PrivText(t)) /\ OccursIn(WordGroup, PrivText(t))]

\* The thread awaits a share decision: its last facilitator message holds
\* both "share" and "group".
AwaitingDecision(thread) ==
  \E i \in 1..Len(thread) :
    /\ thread[i].from_facilitator
    /\ NamesShareAndGroup[thread[i].content]
    /\ \A j \in (i + 1)..Len(thread) : ~thread[j].from_facilitator

\* C7: when the thread awaits a share decision and the user's next private
\* message starts with an affirmative word, the coordinator's invocation
\* adds exactly one public Message to the store and answers that the idea
\* was shared.
C7_AffirmativeShares ==
  (ev.op = "privSendCoord" /\ AwaitingDecision(ev.hist) /\ Affirmative[ev.text]) =>
    /\ Len(msgs) = Len(ev.msgs0) + 1
    /\ SubSeq(msgs, 1, Len(ev.msgs0)) = ev.msgs0
    /\ ev.shared

\* C8: when the thread awaits a share decision and the user's next private
\* message starts with a negative word, the invocation adds no public
\* Message and no ConceptNode, answers a reply with shared = false, and the
\* thread is back in collecting: it no longer awaits a decision.
C8_NegativeKeepsPrivate ==
  (ev.op = "privSendCoord" /\ AwaitingDecision(ev.hist) /\ Negative[ev.text]) =>
    /\ msgs = ev.msgs0
    /\ nodes = ev.nodes0
    /\ ~ev.error
    /\ ~ev.shared
    /\ ~AwaitingDecision(pmsgs[ev.c])

\* ------------------------------------------------------ the message log

MaxLogMsgs == 2

\* The runs of the private function the specification draws from: a failed
\* and a stored announcement, and a conversation reply that asks.
LogPrivRuns ==
  {run \in PrivRuns :
     \/ run.share = "httpError"
     \/ run.share = "ok" /\ run.shareIns /\ run.resp.kind = "httpError"
     \/ run.llm = "ok" /\ run.reply = "f_ask"}

\* One view with its timer and its private chat: every operation that
\* writes a Message. In private the user tells an idea and then agrees.
NextLog ==
  \/ LoadBegin("u1")
  \/ LoadSelect("u1", TRUE)
  \/ LoadApply("u1", TRUE, TRUE, {}, TRUE)
  \/ Notify("u1", TRUE, {}, TRUE)
  \/ /\ Len(msgs) < MaxLogMsgs
     /\ SendStart("u1", "probe_spark", TRUE, TRUE)
  \/ \E run \in EndAgentRuns : SendAgent("u1", run)
  \/ /\ Len(msgs) < MaxLogMsgs
     /\ \E run \in EndAgentRuns, jitter \in LateTick :
          Tick("u1", jitter, run)
  \/ PrivOpen("u1")
  \/ PrivNotify("u1")
  \/ /\ Len(pmsgs["u1"]) < MaxPriv
     /\ Len(msgs) < MaxLogMsgs
     /\ PrivSendStart("u1", IF Len(pmsgs["u1"]) = 0 THEN "p_idea" ELSE "p_yes", TRUE, TRUE)
  \/ \E run \in LogPrivRuns : PrivSendCoord("u1", run, TRUE)

SpecLog == Init /\ [][NextLog]_vars

\* The log `later` extends the log `earlier`: the same Messages at the same
\* places, and possibly more after them.
Extends(later, earlier) ==
  /\ Len(later) >= Len(earlier)
  /\ \A i \in 1..Len(earlier) : later[i] = earlier[i]

\* C11: the message log of every state extends the log of the state before
\* it, and so of every earlier state: a user send, a persona reply, a timer
\* rule, the greeting and a shared announcement only append at the end, and
\* none updates, deletes or reorders a Message.
C11_LogOnlyGrows == [][Extends(msgs', msgs)]_vars

\* An announcement was appended to a log that held a greeting, a user
\* message and a persona reply.
C11_Witness ==
  /\ ev.op = "privSendCoord"
  /\ Len(ev.msgs0) >= 3
  /\ Len(msgs) = Len(ev.msgs0) + 1
  /\ msgs[Len(msgs)].content = "announce_idea"
  /\ \E i \in 1..Len(msgs) : msgs[i].agent_type = "spark"

\* C12: when the summary generation of an end-session action fails, the
\* action still leaves the status of the session ended, it creates no
\* summary row, and the failure is reported as a warning while the action
\* runs to its end.
C12_FailedSummaryStillEnds ==
  (ev.op = "endSession" /\ ev.result = "error") =>
    /\ status = "ended"
    /\ summaries = ev.sums0
    /\ ev.toasts = <<"Generating summary...", "Warning", "Session ended">>

\* ------------------------------------------------------ the scheduler's rules

\* The view read by the tick held the greeting and no user message.
KickoffView == ev.facil = 1 /\ ev.users = 0

\* The tick invoked exactly one persona, with the given prompt.
Invoked(agent, prompt) ==
  /\ Len(ev.calls) = 1
  /\ ev.calls[1].agent = agent
  /\ ev.calls[1].message = prompt

\* C13: on every tick at which the view holds exactly one facilitator
\* message and no user message and at least 60 seconds, exactly 60
\* included, have passed since the last activity, spark is invoked with the
\* kickoff prompt and the activity clock is reset.
C13_KickoffFromSixty ==
  (ev.op = "tick" /\ KickoffView /\ ev.elapsed >= KickoffAfter) =>
    /\ ev.result = "kickoff"
    /\ Invoked("spark", "kickoffPrompt")
    /\ ticks[ev.c] = 0

\* C14: on every tick at which the kickoff rule does not apply and at least
\* 120 seconds, exactly 120 included, have passed since the last activity,
\* exactly one of spark and probe is invoked with its nudge prompt and the
\* activity clock is reset; with a tick every 30 seconds an idle session is
\* so nudged by the tick at 120 seconds.
C14_InactivityFromHundredTwenty ==
  (ev.op = "tick" /\ ~KickoffView /\ ev.elapsed >= InactiveAfter) =>
    /\ ev.result = "inactivity"
    /\ \/ Invoked("spark", "nudgeSparkPrompt")
       \/ Invoked("probe", "nudgeProbePrompt")
    /\ ticks[ev.c] = 0

\* C15: a tick invokes at most one persona, so fires at most one of the
\* two rules; on a tick whose view holds the greeting and no user message,
\* with the kickoff threshold met, the inactivity rule does not fire and
\* lastAgentCalledRef is left as it was, and when the inactivity threshold
\* is met as well it is the kickoff rule that fires.
C15_KickoffBeforeInactivity ==
  ev.op = "tick" =>
    /\ Len(ev.calls) <= 1
    /\ (KickoffView /\ ev.elapsed >= KickoffAfter) =>
         /\ ev.result # "inactivity"
         /\ \A i \in 1..Len(ev.calls) : ev.calls[i].message = "kickoffPrompt"
         /\ lastAgentCalled[ev.c] = ev.last0
         /\ ev.elapsed > InactiveAfter =>
              /\ ev.result = "kickoff"
              /\ Invoked("spark", "kickoffPrompt")

\* A late tick met both thresholds on a view holding only the greeting, and
\* the kickoff rule fired.
C15_Witness ==
  /\ ev.op = "tick"
  /\ KickoffView
  /\ ev.elapsed > InactiveAfter
  /\ ev.result = "kickoff"
  /\ Invoked("spark", "kickoffPrompt")

\* C16: lastAgentCalledRef starts as probe, so in one view the first firing
\* of the inactivity rule invokes spark (ideaGenerator), the second probe
\* (critic), and so on alternately: every odd firing invokes spark and every
\* even firing probe.
C16_AlternationFromSpark ==
  \A c \in Users :
    inact[c].last # "none" =>
      inact[c].last = (IF inact[c].odd THEN "spark" ELSE "probe")

\* The inactivity rule fired a second time in the view, after a first firing
\* that invoked spark, and invoked probe.
C16_Witness ==
  /\ ev.op = "tick"
  /\ ev.result = "inactivity"
  /\ ~inact["u1"].odd
  /\ inact["u1"].prev = "spark"
  /\ Invoked("probe", "nudgeProbePrompt")

\* C16 as stated: the first firing of the inactivity rule invokes probe
\* (critic), the second spark, and so on alternately.
C16_AsStated ==
  \A c \in Users :
    inact[c].last # "none" =>
      inact[c].last = (IF inact[c].odd THEN "probe" ELSE "spark")

\* ------------------------------------------------ thresholds and views

\* The goal-keeper messages of one threshold in the store.
GoalKeeperMessages(kind) ==
  Cardinality({i \in 1..Len(msgs) :
                 msgs[i].agent_type = "anchor" /\ msgs[i].content = kind})

\* The views whose effect saw the count of the threshold and ran its rule.
ReminderViews == {c \in Users : fired[c].reminder > 0}

SummaryPromptViews == {c \in Users : fired[c].prompt > 0}

\* C17: a count threshold that some view has observed has at least one
\* goal-keeper message in the store, and at most one for each view that
\* observed the count, so at most n with n views open.
C17_OnePerObservingView ==
  /\ ReminderViews # {} => GoalKeeperMessages("reminder") >= 1
  /\ GoalKeeperMessages("reminder") <= Cardinality(ReminderViews)
  /\ SummaryPromptViews # {} => GoalKeeperMessages("summaryPrompt") >= 1
  /\ GoalKeeperMessages("summaryPrompt") <= Cardinality(SummaryPromptViews)

\* ------------------------------------------- the participants check

MaxNudgeMsgs == 11

\* Two participants, the creator u1 and u2, each with a view; once both
\* views are loaded one of the two types texts without a mention and the
\* other stays silent.
NextNudge ==
  \/ \E c \in Users : LoadBegin(c)
  \/ \E c \in Users : LoadSelect(c, TRUE)
  \/ \E c \in Users : \E nudgeOk \in NudgeOutcomes(snap[c]) :
       LoadApply(c, TRUE, TRUE, nudgeOk, TRUE)
  \/ \E c \in Users : \E nudgeOk \in NudgeOutcomes(NextLocal(c)) :
       Notify(c, TRUE, nudgeOk, TRUE)
  \/ /\ Len(msgs) < MaxNudgeMsgs
     /\ \A c \in Users : phase[c] = "loaded"
     /\ \E u \in Users :
          /\ \A i \in 1..Len(msgs) : msgs[i].agent_type = "user" => msgs[i].user_id = u
          /\ EnvInsert(u)

SpecNudge == Init /\ [][NextNudge]_vars

\* The effect on [messages] of a view ran the participants check.
CheckRan ==
  /\ ev.op \in {"notify", "loadApply"}
  /\ Len(local[ev.c]) > 0
  /\ Len(local[ev.c]) % 10 = 0

\* p authored a non-anonymous user message among the last 10 of the list.
AuthoredRecently(p, L) ==
  \E i \in 1..Len(L) :
    /\ i > Len(L) - 10
    /\ ev.msgs0[L[i]].agent_type = "user"
    /\ ~ev.msgs0[L[i]].is_anonymous
    /\ ev.msgs0[L[i]].user_id = p

\* The facilitator messages addressed to p that the step appended.
NudgesFor(p) ==
  Cardinality({i \in (Len(ev.msgs0) + 1)..Len(msgs) :
                 /\ msgs[i].agent_type = "facilitator"
                 /\ msgs[i].content = NudgeText(p)})

\* C18: each time the local list of a view reaches a positive multiple of
\* 10, the step appends exactly one facilitator message for every
\* participant of the session other than the viewer who authored no
\* non-anonymous user message among the last 10 of the list, and none for
\* the viewer or for a participant who authored one.
C18_OneNudgePerInactive ==
  CheckRan =>
    \A p \in Users :
      NudgesFor(p) = (IF /\ Joined(participants, p)
                         /\ p # ev.c
                         /\ ~AuthoredRecently(p, local[ev.c])
                      THEN 1 ELSE 0)

\* ------------------------------------------ failures of the scheduler

MaxIsolateMsgs == 17

\* Calls that fail at the completion service or at the insert of the reply,
\* and one that succeeds.
IsolateRuns == EndAgentRuns

\* The creator's view with its timer and its thresholds; u2 joins a new
\* session or not at all, and stays silent. The user types texts without a mention; ticks come late;
\* a call of the scheduler succeeds only while the log is short.
NextIsolate ==
  \/ LoadBegin("u1")
  \/ /\ Len(msgs) = 0
     /\ LoadBegin("u2")
  \/ LoadSelect("u1", TRUE)
  \/ \E anchorOk \in AnchorOutcomes(snap["u1"]), nudgeOk \in NudgeOutcomes(snap["u1"]) :
       LoadApply("u1", TRUE, anchorOk, nudgeOk, TRUE)
  \/ \E anchorOk \in AnchorOutcomes(NextLocal("u1")),
        nudgeOk \in NudgeOutcomes(NextLocal("u1")) :
       Notify("u1", anchorOk, nudgeOk, TRUE)
  \/ /\ Len(msgs) < MaxIsolateMsgs
     /\ SendStart("u1", "hello", TRUE, TRUE)
  \/ /\ Len(msgs) < MaxIsolateMsgs
     /\ \E jitter \in LateTick, run \in IsolateRuns :
          /\ (run.llm = "ok" /\ run.insOk) => Len(msgs) < 3
          /\ Tick("u1", jitter, run)

SpecIsolate == Init /\ [][NextIsolate]_vars

\* The messages the last step appended.
Appended == SubSeq(msgs, Len(ev.msgs0) + 1, Len(msgs))

AppendedOf(agent) == SelectSeq(Appended, LAMBDA m : m.agent_type = agent)

\* The effect on [messages] ran for a list of the given length.
EffectRanAt(n) ==
  /\ ev.op \in {"notify", "loadApply"}
  /\ Len(local[ev.c]) = n

\* C19: a call of the kickoff or inactivity rule that fails at the
\* completion service or at the store appends no message, and a threshold
\* or nudge insert the store rejects appends none; the timer of a loaded
\* view with messages stays armed; and whatever failed before, a tick whose
\* condition holds invokes its persona, and the effect at 15 and at 30
\* messages appends the goal-keeper message the store accepts.
C19_FailureIsolation ==
  /\ (ev.op = "tick" /\ ev.result # "idle" /\ (ev.run.llm # "ok" \/ ~ev.run.insOk)) =>
       msgs = ev.msgs0
  /\ ((EffectRanAt(ReminderCount) \/ EffectRanAt(SummaryCount)) /\ ~ev.anchorOk) =>
       AppendedOf("anchor") = <<>>
  /\ (ev.op \in {"notify", "loadApply"} /\ ev.nudgeOk = {}) =>
       AppendedOf("facilitator") \in {<<>>, <<Msg("facilitator", NoUser, FALSE, "greeting")>>}
  /\ \A c \in Users : (phase[c] = "loaded" /\ Len(local[c]) > 0) => armed[c] > 0
  /\ (ev.op = "tick" /\ KickoffView /\ ev.elapsed > KickoffAfter) =>
       Invoked("spark", "kickoffPrompt")
  /\ (ev.op = "tick" /\ ~KickoffView /\ ev.elapsed > InactiveAfter) =>
       \/ Invoked("spark", "nudgeSparkPrompt")
       \/ Invoked("probe", "nudgeProbePrompt")
  /\ (EffectRanAt(ReminderCount) /\ ev.anchorOk) =>
       AppendedOf("anchor") = <<Msg("anchor", NoUser, FALSE, "reminder")>>
  /\ (EffectRanAt(SummaryCount) /\ ev.anchorOk) =>
       AppendedOf("anchor") = <<Msg("anchor", NoUser, FALSE, "summaryPrompt")>>

\* The inactivity rule fired again after a firing whose call failed, in a
\* session whose nudge at 10 messages the store rejected and whose reminder
\* at 15 it accepted.
C19_Witness ==
  /\ ev.op = "tick"
  /\ ev.result = "inactivity"
  /\ ~inact["u1"].prevOk
  /\ Joined(participants, "u2")
  /\ \A i \in 1..Len(msgs) : msgs[i].content # NudgeText("u2")
  /\ GoalKeeperMessages("reminder") = 1

\* ------------------------------------------- extraction after a message

\* The last step issued an extraction request for the text of message m.
Requested(m) ==
  \E i \in 1..Len(ev.extracts) : ev.extracts[i].message = m.content

\* A reply of a persona that callAgent stored, or a shared announcement.
MinedMessage(m) ==
  \/ m.agent_type \in {"spark", "probe"}
  \/ m.agent_type = "facilitator" /\ m.content \in {AnnounceText(i) : i \in PrivUserTexts}

MaxGraphMsgs == 2

\* Calls whose reply is stored and mined: the extraction may fail, find
\* nothing, or find concepts, and the store may reject any node.
GraphRuns == {run \in AgentRuns : run.llm = "ok" /\ run.insOk /\ RelevantRun(run)}

\* The private runs of the graph specification: the facilitator asks to
\* share, and a share whose announcement is stored and mined.
GraphPrivRuns ==
  {run \in PrivRuns :
     \/ run.share = "ok" /\ run.shareIns
     \/ run.llm = "ok" /\ run.reply = "f_ask"}

\* One view whose user mentions a persona, whose timer fires late, and
\* whose user tells an idea in private and then agrees to share it.
NextGraph ==
  \/ LoadBegin("u1")
  \/ LoadSelect("u1", TRUE)
  \/ LoadApply("u1", TRUE, TRUE, {}, TRUE)
  \/ Notify("u1", TRUE, {}, TRUE)
  \/ /\ Len(msgs) < MaxGraphMsgs
     /\ SendStart("u1", "probe_spark", TRUE, TRUE)
  \/ \E run \in GraphRuns : SendAgent("u1", run)
  \/ /\ Len(msgs) < MaxGraphMsgs
     /\ \E run \in GraphRuns, jitter \in LateTick : Tick("u1", jitter, run)
  \/ PrivOpen("u1")
  \/ PrivNotify("u1")
  \/ /\ Len(pmsgs["u1"]) < MaxPriv
     /\ Len(msgs) < MaxGraphMsgs
     /\ PrivSendStart("u1", IF Len(pmsgs["u1"]) = 0 THEN "p_idea" ELSE "p_yes", TRUE, TRUE)
  \/ \E run \in GraphPrivRuns : PrivSendCoord("u1", run, TRUE)

SpecGraph == Init /\ [][NextGraph]_vars

\* The nodes the last step created.
NewNodes == (Len(ev.nodes0) + 1)..Len(nodes)

\* The edges that point to node k.
EdgesInto(k) == {i \in 1..Len(edges) : edges[i].target = k}

\* C21: for each node an extraction creates, the store holds exactly one
\* edge from each existing node its connection labels resolved to, directed
\* to the new node, and no edge when none resolved.
C21_EdgePerResolvedParent ==
  ev.op \in {"sendAgent", "tick"} =>
    \A k \in NewNodes :
      /\ Cardinality(EdgesInto(k)) = Cardinality(nodes[k].near)
      /\ {edges[i].source : i \in EdgesInto(k)} = nodes[k].near

\* The extraction of the last step failed: the extract-concepts call
\* answered an error, or the store rejected a node. (A failed fetch of the
\* labels leaves the request with an empty list and is no case of its own.)
ExtractionFailed ==
  LET run == IF ev.op = "privSendCoord" THEN ev.prun ELSE ev.run IN
  /\ ev.extracts # <<>>
  /\ \/ run.resp.kind = "httpError"
     \/ run.nodeFail # {}

\* C22: when the extraction that follows a stored persona message fails,
\* the message is in the store, the handler raises no agent error, and the
\* flow ends as after an empty extraction: the send is over, the tick has
\* reset its clock, the share is acknowledged as shared; a failed call
\* leaves the nodes as they were.
C22_ExtractionFailureIsolated ==
  ExtractionFailed =>
    /\ Len(Appended) = 1
    /\ Requested(Appended[1])
    /\ ev.toasts = <<>>
    /\ (ev.op # "privSendCoord" /\ ev.run.resp.kind = "httpError") => nodes = ev.nodes0
    /\ (ev.op = "privSendCoord" /\ ev.prun.resp.kind = "httpError") => nodes = ev.nodes0
    /\ ev.op = "sendAgent" => ~sending[ev.c] /\ ~pend[ev.c].active
    /\ ev.op = "tick" => ticks[ev.c] = 0
    /\ ev.op = "privSendCoord" =>
         /\ ~ev.error
         /\ ev.shared
         /\ pmsgs[ev.c][Len(pmsgs[ev.c])] = PrivMsg(TRUE, "f_ack")

\* A reply to a mention was stored, and of the two concepts found the store
\* rejected the second node.
C22_Witness ==
  /\ ev.op = "sendAgent"
  /\ ExtractionFailed
  /\ ev.run.nodeFail = {2}
  /\ Len(nodes) = Len(ev.nodes0) + 1
  /\ msgs[Len(msgs)].agent_type = "spark"

\* C23: every node of the store carries the persona tag of its source
\* message, and its message_id refers to a message of the store; the nodes
\* a step creates refer to the one persona message the same step appended
\* before them.
C23_NodeTaggedAfterMessage ==
  /\ \A k \in 1..Len(nodes) :
       /\ nodes[k].message_id \in 1..Len(msgs)
       /\ msgs[nodes[k].message_id].agent_type = nodes[k].agent_type
  /\ NewNodes # {} =>
       /\ Len(Appended) = 1
       /\ \A k \in NewNodes : nodes[k].message_id = Len(msgs)

\* A share created a node for the announcement, in a graph that held a node
\* of a reply of spark.
C23_Witness ==
  /\ ev.op = "privSendCoord"
  /\ NewNodes # {}
  /\ nodes[Len(nodes)].agent_type = "facilitator"
  /\ msgs[Len(msgs)].content = "announce_idea"
  /\ \E k \in 1..Len(nodes) : nodes[k].agent_type = "spark"

\* C24: every reply to a mention is stored after the user message that
\* triggered it, and handleSendMessage calls no persona and stores no reply
\* for a user message whose own insert failed.
C24_ReplyAfterStoredTrigger ==
  (ev.op = "sendAgent" /\ ev.calls # <<>>) =>
    /\ ev.userIns
    /\ \E i \in 1..Len(ev.msgs0) : ev.msgs0[i] = Msg("user", ev.c, FALSE, ev.text)

\* ------------------------------------------------- publication on consent

\* C25: an invocation of the coordinator appends a public message only
\* when the last facilitator message of the history it was given holds both
\* "share" and "group" and the user's message starts with an affirmative
\* word; every other invocation leaves the messages and the nodes of the
\* session as they were.
C25_PublishOnlyOnConsent ==
  ev.op = "privSendCoord" =>
    /\ msgs # ev.msgs0 => AwaitingDecision(ev.hist) /\ Affirmative[ev.text]
    /\ ~(AwaitingDecision(ev.hist) /\ Affirmative[ev.text]) =>
         /\ msgs = ev.msgs0
         /\ nodes = ev.nodes0

\* The user's message was affirmative while no consent question was
\* pending: the coordinator answered and published nothing.
C25_Witness ==
  /\ ev.op = "privSendCoord"
  /\ Affirmative[ev.text]
  /\ ~AwaitingDecision(ev.hist)
  /\ ~ev.error
  /\ msgs = ev.msgs0
  /\ nodes = ev.nodes0

\* ------------------------------------------------------- the shared idea

MaxThread == 5

\* The runs of the idea specification: the facilitator asks for more or
\* asks to share, and a share whose announcement is stored.
IdeaRuns ==
  {run \in PrivRuns :
     \/ run.share = "ok" /\ run.shareIns /\ run.resp = [kind |-> "tool", concepts |-> <<>>]
     \/ run.llm = "ok" /\ run.reply \in {"f_more", "f_ask"}}

\* One user in the private chat: an idea first, then a refinement of it or
\* an agreement, until an announcement is in the group chat.
NextIdea ==
  \/ LoadBegin("u1")
  \/ LoadSelect("u1", TRUE)
  \/ LoadApply("u1", TRUE, TRUE, {}, TRUE)
  \/ PrivOpen("u1")
  \/ PrivNotify("u1")
  \/ /\ Len(pmsgs["u1"]) < MaxThread
     /\ Len(msgs) <= MaxShared
     /\ \E text \in (IF Len(pmsgs["u1"]) = 0 THEN {"p_idea"} ELSE {"p_refined", "p_yes"}) :
          PrivSendStart("u1", text, TRUE, TRUE)
  \/ \E run \in IdeaRuns : PrivSendCoord("u1", run, TRUE)

SpecIdea == Init /\ [][NextIdea]_vars

\* The user messages of a thread, oldest first.
UserTexts(thread) == SelectSeq(thread, LAMBDA m : ~m.from_facilitator)

\* C26: when the coordinator shares, the idea it puts into the prompt of
\* the announcement is the most recent user message of the thread it was
\* given, whether the thread holds one earlier user message or more.
C26_SharesLatestIdea ==
  (ev.op = "privSendCoord" /\ ev.result = "share" /\ UserTexts(ev.hist) # <<>>) =>
    ev.idea = UserTexts(ev.hist)[Len(UserTexts(ev.hist))].content

\* ------------------------------------------------ the private writes

\* The coordinator of the last step failed: the function answered an error.
CoordinatorFailed ==
  IF ev.result = "share" THEN ev.prun.share = "throws" ELSE ev.prun.llm # "ok"

MaxHistoryMsgs == 13

\* Calls of a persona that succeed, and calls the completion service fails.
HistoryRuns == {run \in EndAgentRuns : run.insOk}

\* The log may be written while it is short, or once it holds a full window.
HistoryOpen ==
  \/ Len(msgs) < MaxHistoryMsgs - HistoryWindow
  \/ Len(msgs) >= HistoryWindow /\ Len(msgs) < MaxHistoryMsgs

\* The creator's view loads a new session, or one that another user's
\* client filled with a window of messages; the view then runs its timer
\* and the creator mentions a persona now and then.
NextHistory ==
  \/ /\ Len(msgs) < HistoryWindow
     /\ phase["u1"] = "init"
     /\ EnvInsert("u2")
  \/ /\ Len(msgs) \in {0, HistoryWindow}
     /\ LoadBegin("u1")
  \/ LoadSelect("u1", TRUE)
  \/ LoadApply("u1", TRUE, TRUE, {}, TRUE)
  \/ Notify("u1", TRUE, {}, TRUE)
  \/ /\ HistoryOpen
     /\ SendStart("u1", "probe_spark", TRUE, TRUE)
  \/ \E run \in HistoryRuns : SendAgent("u1", run)
  \/ /\ HistoryOpen
     /\ \E jitter \in Jitter \cup LateTick, run \in HistoryRuns \cup {NoRun} :
          Tick("u1", jitter, run)

SpecHistory == Init /\ [][NextHistory]_vars

\* The last step called a persona: a mention, a kickoff or an inactivity
\* prompt.
PersonaCall ==
  \/ ev.op = "sendAgent"
  \/ ev.op = "tick" /\ ev.result \in {"kickoff", "inactivity"}

\* C28: every persona call sends one prior-turn list of at most 10 entries,
\* the last min(10, n) messages of the view the handler holds in their
\* order, each with role user if and only if its speaker tag is user and
\* role assistant otherwise.
C28_BoundedHistory ==
  PersonaCall =>
    /\ Len(ev.calls) = 1
    /\ LET history == ev.calls[1].history
           n == Len(ev.view)
           k == IF n < HistoryWindow THEN n ELSE HistoryWindow
       IN /\ Len(history) = k
          /\ Len(history) <= 10
          /\ \A i \in 1..k :
               LET m == ev.msgs0[ev.view[n - k + i]] IN
               /\ history[i].content = m.content
               /\ history[i].role \in {"user", "assistant"}
               /\ history[i].role = "user" <=> m.agent_type = "user"

\* A persona is called from a view of more than 10 messages, with both a
\* user's and a persona's message among the 10 it sends.
C28_Witness ==
  /\ PersonaCall
  /\ Len(ev.view) > HistoryWindow
  /\ Len(ev.calls) = 1
  /\ \E i, j \in 1..Len(ev.calls[1].history) :
       /\ ev.calls[1].history[i].role = "user"
       /\ ev.calls[1].history[j].role = "assistant"
  /\ Len(ev.calls[1].history) = HistoryWindow

\* ------------------------------------------------ the summary rows

MaxRows == 3

\* The views of the creator and of another user; the creator types a text;
\* either user presses End Session, again and again, and deletes the
\* summary the dialog shows.
NextSummaries ==
  \/ \E c \in Users : LoadBegin(c)
  \/ \E c \in Users : LoadSelect(c, TRUE)
  \/ \E c \in Users : LoadApply(c, TRUE, TRUE, {}, TRUE)
  \/ \E c \in Users : Notify(c, TRUE, {}, TRUE)
  \/ /\ Len(msgs) < MaxEndMsgs
     /\ SendStart("u1", "hello", TRUE, TRUE)
  \/ /\ Len(summaries) < MaxRows
     /\ \E c \in Users, run \in SummaryRuns, updOk \in BOOLEAN :
          EndSession(c, run, updOk)
  \/ \E c \in Users, delOk \in BOOLEAN : DeleteSummary(c, delOk)

SpecSummaries == Init /\ [][NextSummaries]_vars

\* C29: the session has at most one summary row in every reachable state,
\* and an end-session action adds a row only when there is none.
C29_AtMostOneSummary ==
  /\ Len(summaries) <= 1
  /\ (ev.op = "endSession" /\ Len(summaries) > Len(ev.sums0)) => ev.sums0 = <<>>

\* C30: an end-session action whose structured summary call succeeds, on
\* a session with messages and a store that accepts the summary row,
\* persists a summary whatever the image call answers, and marks the
\* session ended when the creator's update is accepted.
C30_StepsIndependent ==
  (/\ ev.op = "endSession"
   /\ ev.msgs0 # <<>>
   /\ ev.srun.llm = "ok"
   /\ ev.srun.insOk) =>
    /\ Len(summaries) = Len(ev.sums0) + 1
    /\ (ev.c = Creator /\ ev.ins) => status = "ended"

\* ------------------------------------------------------- anonymity

MaxAnonMsgs == 3

\* The private runs of the anonymity specification: the facilitator asks
\* to share, and a share whose announcement is stored.
AnonPrivRuns ==
  {run \in PrivRuns :
     \/ run.share = "ok" /\ run.shareIns /\ run.resp.kind = "httpError"
     \/ run.llm = "ok" /\ run.reply = "f_ask"}

\* Every view is loaded and has seen every message, and no send is under
\* way: the users act one after the other.
AnonQuiet ==
  \A c \in Users :
    /\ phase[c] = "loaded"
    /\ cursor[c] = Len(msgs)
    /\ ~ppend[c].active
    /\ popen[c] => pcursor[c] = Len(pmsgs[c])

\* Two users' views; either user types in the chat, sends an anonymous idea
\* or shares one through the private facilitator.
NextAnon ==
  \/ \E c \in Users : LoadBegin(c)
  \/ \E c \in Users : LoadSelect(c, TRUE)
  \/ \E c \in Users : LoadApply(c, TRUE, TRUE, {}, TRUE)
  \/ \E c \in Users : Notify(c, TRUE, {}, TRUE)
  \/ /\ Len(msgs) < MaxAnonMsgs
     /\ AnonQuiet
     /\ \E c \in Users : SendStart(c, "hello", TRUE, TRUE)
  \/ /\ Len(msgs) < MaxAnonMsgs
     /\ AnonQuiet
     /\ \E c \in Users, auth \in BOOLEAN, llm \in {"ok", "httpError"}, insOk \in BOOLEAN :
          SendDM(c, "hello", auth, llm, insOk)
  \/ \E c \in Users : PrivOpen(c)
  \/ \E c \in Users : PrivNotify(c)
  \/ \E c \in Users :
       /\ Len(pmsgs[c]) < MaxPriv
       /\ Len(msgs) < MaxAnonMsgs
       /\ AnonQuiet
       /\ PrivSendStart(c, IF Len(pmsgs[c]) = 0 THEN "p_idea" ELSE "p_yes", TRUE, TRUE)
  \/ \E c \in Users, run \in AnonPrivRuns : PrivSendCoord(c, run, TRUE)

SpecAnon == Init /\ [][NextAnon]_vars

\* The last step published a message for a user who is not to be named: an
\* anonymous idea, or an idea shared by the private coordinator.
PublishedUnnamed ==
  /\ ev.op \in {"sendDM", "privSendCoord"}
  /\ Len(msgs) > Len(ev.msgs0)

\* C31: every message with the anonymity flag set and every message the
\* private coordinator publishes is stored without an author; the row the
\* step appends is made of the text and of the completion's answer alone,
\* the same row whichever user the step ran for.
C31_NoAuthorExposed ==
  /\ \A i \in 1..Len(msgs) :
       (msgs[i].is_anonymous \/ msgs[i].agent_type = "facilitator") =>
          msgs[i].user_id = NoUser
  /\ PublishedUnnamed =>
       /\ Len(msgs) = Len(ev.msgs0) + 1
       /\ msgs[Len(msgs)] =
            IF ev.op = "sendDM"
            THEN Msg("user", NoUser, TRUE, "reply")
            ELSE Msg("facilitator", NoUser, FALSE, AnnounceText(ev.idea))
       /\ \A u \in Users : msgs[Len(msgs)].user_id # u

\* The user who is not the creator has shared an idea through the private
\* coordinator, in a log that holds a message signed by that user.
C31_Witness ==
  /\ PublishedUnnamed
  /\ ev.c = "u2"
  /\ ev.op = "privSendCoord"
  /\ \E i \in 1..Len(msgs) : msgs[i].user_id = "u2"

\* ------------------------------------------------------- the one timer

MaxArmMsgs == 3

\* The creator's view with its timer, a user who mentions a persona, the
\* texts of another client, and the teardown of the view.
NextArm ==
  \/ LoadBegin("u1")
  \/ LoadSelect("u1", TRUE)
  \/ \E greetOk \in BOOLEAN : LoadApply("u1", greetOk, TRUE, {}, TRUE)
  \/ Notify("u1", TRUE, {}, TRUE)
  \/ /\ Len(msgs) < MaxArmMsgs
     /\ EnvInsert("u2")
  \/ /\ Len(msgs) < MaxArmMsgs
     /\ SendStart("u1", "probe_spark", TRUE, TRUE)
  \/ \E run \in TimerRuns : SendAgent("u1", run)
  \/ /\ Len(msgs) < MaxArmMsgs
     /\ \E jitter \in Jitter \cup LateTick, run \in TimerRuns : Tick("u1", jitter, run)
  \/ Unmount("u1")

SpecArm == Init /\ [][NextArm]_vars

\* C32: each view has at most one running timer, and has one exactly when
\* it has a session and a message in its list; every change of the list
\* leaves one new timer in place of the old; after the teardown of the view
\* no timer runs and no tick fires.
C32_OneTimerPerView ==
  /\ [](\A c \in Users :
          /\ armed[c] <= 1
          /\ armed[c] = 1 <=> (session[c] /\ Len(local[c]) > 0)
          /\ phase[c] = "closed" => armed[c] = 0)
  /\ [][\A c \in Users :
          /\ (local'[c] # local[c] /\ Len(local'[c]) > 0) =>
               (armed'[c] = 1 /\ ticks'[c] = 0)
          /\ phase[c] = "closed" => ~(ev'.op = "tick" /\ ev'.c = c)]_vars

\* The view is torn down while its timer runs and a tick is due.
C32_Witness ==
  /\ ev.op = "unmount"
  /\ Len(local[ev.c]) > 1
  /\ ticks[ev.c] > 0
  /\ armed[ev.c] = 0

\* ------------------------------------------------ yes and no

\* The pieces the classified inputs are put together from: white space,
\* words of the two vocabularies in mixed case, and other words.
ClassifyPieces ==
  { <<" ">>, <<"\t">>, <<"Y","e","s">>, <<"y","e","a","h">>, <<"O","K">>,
    <<"s","h","a","r","e">>, <<"N","a","h">>, <<"n">>, <<"d","o","n","'","t">>,
    <<"D","O","N","T">>, <<"m","a","y","b","e">>, <<"d","o">>, <<"x">> }

ClassifyTexts ==
  { Concat(ss) : ss \in UNION {[1..n -> ClassifyPieces] : n \in 0..MaxPieces} }

\* The branch of the function from its three tests.
branchOf(asking, isYes, isNo) ==
  IF asking /\ isYes THEN "share"
  ELSE IF asking /\ isNo THEN "decline"
  ELSE "collect"

\* private-facilitator tests the message of a request and takes its branch;
\* the last facilitator message asks to share or does not.
Classify(userMessage, asking) ==
  /\ ev' = [NoEv EXCEPT !.op = "classify", !.chars = userMessage,
                        !.isYes = isYesResponse(userMessage),
                        !.isNo = isNoResponse(userMessage),
                        !.asking = asking,
                        !.result = branchOf(asking, isYesResponse(userMessage),
                                            isNoResponse(userMessage))]
  /\ UNCHANGED <<storeVars, viewVars, fired, inact>>

\* One request per behaviour, with any of the texts.
NextClassify ==
  /\ ev.op = "none"
  /\ \E userMessage \in ClassifyTexts, asking \in BOOLEAN : Classify(userMessage, asking)

SpecClassify == Init /\ [][NextClassify]_vars

\* C33: a private input is affirmative exactly when, white space at its
\* ends apart, it starts with one of the affirmative words in any case, and
\* negative exactly when it starts so with one of the negative words; no
\* input is both; an input that is neither takes the collecting branch.
C33_YesNoByPrefix ==
  ev.op = "classify" =>
    /\ ev.isYes <=> StartsWithOneOf(YesWords, ev.chars)
    /\ ev.isNo <=> StartsWithOneOf(NoWords, ev.chars)
    /\ ~(ev.isYes /\ ev.isNo)
    /\ (~ev.isYes /\ ~ev.isNo) => ev.result = "collect"

\* An input with white space before an affirmative word in capitals is
\* classified affirmative where the facilitator asked, and is shared.
C33_Witness ==
  /\ ev.op = "classify"
  /\ Len(ev.chars) > 2
  /\ ev.chars[1] \in Whitespace
  /\ ev.chars[2] = "O"
  /\ ev.isYes
  /\ ev.result = "share"

\* ------------------------------------------------ the report of a share

\* C34: the coordinator answers shared = true, with the acknowledgment of
\* the share, only when its invocation appended a public message; when the
\* announcement call fails or holds no text the answer is an error and the
\* idea is not reported as shared.
C34_SharedOnlyIfPublished ==
  ev.op = "privSendCoord" =>
    /\ ev.shared => Len(msgs) = Len(ev.msgs0) + 1
    /\ (ev.result = "share" /\ ev.prun.share \in {"throws", "httpError", "noContent"}) =>
         (ev.error /\ ~ev.shared)

\* ------------------------------------------------ after a share

MaxAgain == 2

\* One user in the private chat, with a store and a completion service that
\* work: an idea, then agreements, one after the other.
NextAgain ==
  \/ LoadBegin("u1")
  \/ LoadSelect("u1", TRUE)
  \/ LoadApply("u1", TRUE, TRUE, {}, TRUE)
  \/ Notify("u1", TRUE, {}, TRUE)
  \/ PrivOpen("u1")
  \/ PrivNotify("u1")
  \/ /\ Len(pmsgs["u1"]) < MaxThread
     /\ Len(msgs) <= MaxAgain
     /\ \E text \in (IF Len(pmsgs["u1"]) = 0 THEN {"p_idea"} ELSE {"p_yes", "p_no"}) :
          PrivSendStart("u1", text, TRUE, TRUE)
  \/ \E run \in IdeaRuns : PrivSendCoord("u1", run, TRUE)

SpecAgain == Init /\ [][NextAgain]_vars

\* The last facilitator message of the thread is the acknowledgment of a
\* share: the thread has reached shared and nothing was asked since.
SharedNotAskedAgain(thread) ==
  \E i \in 1..Len(thread) :
    /\ thread[i].from_facilitator
    /\ thread[i].content = "f_ack"
    /\ \A j \in (i + 1)..Len(thread) : ~thread[j].from_facilitator

\* C35: once the thread has reached shared, an affirmative message of the
\* user publishes nothing further unless a facilitator reply made after the
\* share asks for consent again: the acknowledgment of the share does not
\* make the thread await a decision.
C35_AckDoesNotAsk ==
  (ev.op = "privSendCoord" /\ SharedNotAskedAgain(ev.hist)) =>
    /\ ev.result # "share"
    /\ msgs = ev.msgs0
    /\ ~ev.shared

\* ------------------------------------------------ the local copy

\* C36: after its load, the list of a view holds each message of the store
\* at most once, in the order of the store, and none is missing before the
\* newest it holds: the list is the first messages of the log, one by one.
C36_FaithfulCopy ==
  \A c \in Users :
    phase[c] = "loaded" =>
      /\ \A i, j \in 1..Len(local[c]) : i < j => local[c][i] < local[c][j]
      /\ \A k \in 1..Len(local[c]) : local[c][k] = k

\* ------------------------------------------------ the greeting

\* C37: the store holds at most one automatic greeting of the facilitator,
\* also when two views load the empty session at the same time.
C37_OneGreeting ==
  Cardinality({i \in 1..Len(msgs) :
                 msgs[i] = Msg("facilitator", NoUser, FALSE, "greeting")}) <= 1

\* ------------------------------------------------ count rules at rest

MaxCrowd == 10

MaxRestMsgs == 21

\* Further participants of the session, who joined from clients of their
\* own that are not modelled and whose profiles have no display name.
CrowdNames == <<"p01", "p02", "p03", "p04", "p05", "p06", "p07", "p08", "p09", "p10",
                "p11", "p12">>

Crowd == {CrowdNames[i] : i \in 1..MaxCrowd}

\* loadSession of another client: its user joins as a participant.
EnvJoin(p) ==
  /\ ~Joined(participants, p)
  /\ participants' = Append(participants, p)
  /\ ev' = [NoEv EXCEPT !.op = "envJoin", !.c = p, !.msgs0 = msgs,
                        !.nodes0 = nodes, !.edges0 = edges]
  /\ UNCHANGED <<msgs, nodes, edges, status, summaries, pmsgs>>
  /\ UNCHANGED viewVars
  /\ UNCHANGED <<fired, inact>>

\* The store accepts the nudges of a check, or rejects them all.
RestNudgeOutcomes(L) ==
  IF Len(L) > 0 /\ Len(L) % CheckEvery = 0 THEN {Users \cup Crowd, {}} ELSE {Users}

\* The view of the creator in a session the crowd joins one by one. The
\* creator types texts without a mention until the store holds ten
\* messages; from then on there is no user input, and there is no timer
\* tick at all: only notifications, and the effect they run.
NextRest ==
  \/ LoadBegin("u1")
  \/ LoadSelect("u1", TRUE)
  \/ LoadApply("u1", TRUE, TRUE, {}, TRUE)
  \/ \E i \in 1..MaxCrowd :
       /\ \A j \in 1..(i - 1) : Joined(participants, CrowdNames[j])
       /\ EnvJoin(CrowdNames[i])
  \/ /\ Len(msgs) < CheckEvery
     /\ SendStart("u1", "hello", TRUE, TRUE)
  \/ /\ Len(msgs) <= MaxRestMsgs
     /\ \E anchorOk \in AnchorOutcomes(NextLocal("u1")),
           nudgeOk \in RestNudgeOutcomes(NextLocal("u1")) :
          Notify("u1", anchorOk, nudgeOk, TRUE)

SpecRest == Init /\ [][NextRest]_vars

\* A message a count rule appended: a nudge or a goal-keeper message.
RuleMade(m) ==
  \/ m.agent_type = "anchor" /\ m.content \in {"reminder", "summaryPrompt"}
  \/ m.agent_type = "facilitator" /\ m.content \in {NudgeText(p) : p \in Users \cup Crowd}

\* The last ten messages of the list the check ran on were all appended by
\* count rules.
FedByRulesOnly ==
  /\ CheckRan
  /\ LET L == local[ev.c] IN
       \A i \in 1..Len(L) : i > Len(L) - RecentWindow => RuleMade(ev.msgs0[L[i]])

\* C38: with no user input and no timer tick the count rules come to rest: a
\* participants check that was fed by rule-made messages only appends fewer
\* than ten messages, so the rules cannot carry a list from one multiple of
\* 10 to the next on their own, whatever the number of participants.
C38_RulesComeToRest ==
  FedByRulesOnly => Len(msgs) - Len(ev.msgs0) < CheckEvery

\* ------------------------------------------------ the kickoff, once

\* C39: the kickoff rule fires at most once per view: once a tick of a view
\* has invoked the idea generator through the kickoff rule, no later tick of
\* that view invokes it through the kickoff rule again.
C39_KickoffOnce ==
  [][\A c \in Users :
       fired[c].kicked => ~(ev'.op = "tick" /\ ev'.c = c /\ ev'.result = "kickoff")]_vars

====
